---------------------------- MODULE Spec2Model ----------------------------
(* User management service: business service (CreateUser, GetUserByID,     *)
(* GetAllUsers, UpdateUser, DeleteUser) over the GORM persistence gateway  *)
(* (PostgreSQL table users, soft delete) and the Redis cache-aside layer.  *)
(*                                                                         *)
(* A Go pointer or a nullable column is a sequence of length 0 (nil, NULL) *)
(* or 1.  A Go error is the sequence of the parts of its message, <<>>     *)
(* being nil; fmt.Errorf("prefix: %v", err) prepends a part.               *)
EXTENDS Integers, Sequences, FiniteSets, TLC

VARIABLES
    users,      \* rows of table users, in the order a sequential scan meets them
    nextID,     \* next value of the sequence behind users.id (SERIAL)
    cache,      \* Redis: key -> [json, expireAt]
    redis,      \* TRUE iff userService.redisClient is not nil
    now,        \* wall clock, in minutes
    res,        \* the last service call: its arguments and what it returned
    calls,      \* the gateway calls the last service call made, in order
    http,       \* the response to the last HTTP request
    failing,    \* the gateway methods and Redis commands that fail for now
    inflight    \* the service calls under way, one per concurrent request

vars == <<users, nextID, cache, redis, now, res, calls, http, failing, inflight>>

-----------------------------------------------------------------------------
(* Bounds of the model *)

MaxID == 2          \* identifiers the sequence hands out in Spec
MaxTimedID == 1     \* identifiers the sequence hands out in TimeSpec
TickStep == 10      \* minutes one Tick advances the clock by
MaxTime == 20       \* the clock stops here
MaxListRows == 27   \* rows of the table in PageSpec
MaxProcs == 2       \* requests served at the same time in ConcSpec

(* Program constants *)

CacheTTL == 15          \* 15*time.Minute
MaxPageSize == 100
DefaultPageSize == 10

Nil == <<>>
Ptr(x) == <<x>>
Deref(p) == p[1]

Min(a, b) == IF a < b THEN a ELSE b

-----------------------------------------------------------------------------
(* Go's int on a 64-bit platform: two's complement, here IntLimbs limbs of *)
(* 16 bits, least significant first.  Only page and offset need the width: *)
(* every other integer of the program stays far from its limits.           *)

LimbBase == 65536
IntLimbs == 4

\* The int with value n, for -LimbBase < n < LimbBase * LimbBase \div 2.
Int64(n) ==
    IF n >= 0 THEN <<n % LimbBase, n \div LimbBase, 0, 0>>
    ELSE <<LimbBase + n, LimbBase - 1, LimbBase - 1, LimbBase - 1>>

\* math.MaxInt64, which strconv.Atoi returns for a number out of range.
MaxInt64 == <<LimbBase - 1, LimbBase - 1, LimbBase - 1, LimbBase \div 2 - 1>>

IsNegative(w) == w[IntLimbs] >= LimbBase \div 2
IsZero(w) == \A i \in 1..IntLimbs : w[i] = 0

\* w < 1
LessThanOne(w) == IsNegative(w) \/ IsZero(w)

RECURSIVE DecFrom(_, _)
DecFrom(w, i) ==
    IF i > IntLimbs THEN w
    ELSE IF w[i] > 0 THEN [w EXCEPT ![i] = @ - 1]
    ELSE DecFrom([w EXCEPT ![i] = LimbBase - 1], i + 1)

\* w - 1, wrapping
Dec(w) == DecFrom(w, 1)

RECURSIVE MulFrom(_, _, _, _)
MulFrom(w, k, i, carry) ==
    IF i > IntLimbs THEN w
    ELSE LET t == w[i] * k + carry
         IN  MulFrom([w EXCEPT ![i] = t % LimbBase], k, i + 1, t \div LimbBase)

\* w * k for 0 <= k <= MaxPageSize, wrapping: the carry out of the top limb
\* is lost.
Mul(w, k) == MulFrom(w, k, 1, 0)

RECURSIVE ExactMulFrom(_, _, _, _)
\* w * k + carry as a number: the limbs of the product, then the carry out of
\* the top limb as one more limb.
ExactMulFrom(w, k, i, carry) ==
    IF i > IntLimbs THEN Append(w, carry)
    ELSE LET t == w[i] * k + carry
         IN  ExactMulFrom([w EXCEPT ![i] = t % LimbBase], k, i + 1, t \div LimbBase)

RECURSIVE NegFrom(_, _, _)
NegFrom(w, i, carry) ==
    IF i > IntLimbs THEN w
    ELSE LET t == (LimbBase - 1 - w[i]) + carry
         IN  NegFrom([w EXCEPT ![i] = t % LimbBase], i + 1, t \div LimbBase)

\* -w, wrapping
Neg(w) == NegFrom(w, 1, 1)

\* math.MinInt64
MinInt64 == <<0, 0, 0, LimbBase \div 2>>

\* The value of an int that lies strictly between -2^31 and 2^31.
IntValue(w) ==
    IF IsNegative(w) THEN 0 - (Neg(w)[1] + Neg(w)[2] * LimbBase)
    ELSE w[1] + w[2] * LimbBase

\* The rows a query skips for OFFSET w, w > 0, on a table of n rows.
Skipped(w, n) ==
    IF (\E i \in 3..IntLimbs : w[i] # 0) \/ w[2] >= LimbBase \div 2 THEN n
    ELSE Min(w[1] + w[2] * LimbBase, n)

-----------------------------------------------------------------------------
(* strconv: decimal numbers in path and query parameters *)

Digits == {"0", "1", "2", "3", "4", "5", "6", "7", "8", "9"}
DigitOf(ch) == CHOOSE d \in 0..9 : ToString(d) = ch
CharAt(s, i) == SubSeq(s, i, i)

RECURSIVE ParseDigits(_, _, _, _)
\* The digits s[i..] appended to the number acc, which must stay below
\* 2^bits (bits a multiple of 16): the number, or why there is none.
ParseDigits(s, i, acc, bits) ==
    IF i > Len(s) THEN [value |-> acc, err |-> "none"]
    ELSE IF CharAt(s, i) \notin Digits THEN [value |-> Int64(0), err |-> "syntax"]
    ELSE LET n == ExactMulFrom(acc, 10, 1, DigitOf(CharAt(s, i)))
         IN  IF \E k \in (bits \div 16 + 1)..(IntLimbs + 1) : n[k] # 0
             THEN [value |-> Int64(0), err |-> "range"]
             ELSE ParseDigits(s, i + 1, SubSeq(n, 1, IntLimbs), bits)

ParseUint_lenient(s) ==
    IF s = "" THEN [value |-> Int64(0), err |-> "none"]
    ELSE LET n == ParseDigits(s, 1, Int64(0), 32)
         IN  [n EXCEPT !.err = "none"]

\* strconv.ParseUint(s, 10, 32): digits only, no sign, below 2^32.
ParseUint(s) ==
    IF s = "" THEN [value |-> Int64(0), err |-> "syntax"]
    ELSE ParseDigits(s, 1, Int64(0), 32)

\* strconv.Atoi(s) with the error dropped, as in page, _ := strconv.Atoi(..):
\* 0 for what is no number, the nearest int for a number out of range.
Atoi(s) ==
    LET signed == s # "" /\ CharAt(s, 1) \in {"+", "-"}
        neg == s # "" /\ CharAt(s, 1) = "-"
        from == IF signed THEN 2 ELSE 1
        m == ParseDigits(s, from, Int64(0), 64)
    IN  IF Len(s) < from \/ m.err = "syntax" THEN Int64(0)
        ELSE IF m.err = "range" \/ IsNegative(m.value)
        THEN (IF neg THEN MinInt64 ELSE MaxInt64)
        ELSE IF neg THEN Neg(m.value) ELSE m.value

-----------------------------------------------------------------------------
(* models: User, UserRequest, UserResponse *)

Req(name, email, age, phone, address, active) ==
    [Name |-> name, Email |-> email, Age |-> age, Phone |-> phone,
     Address |-> address, IsActive |-> active]

\* Valid requests the callers send.  Emails differ in case only, or entirely.
Requests ==
    { Req("John Doe", "john@example.com", 30, "1234567890", "123 Main St", Nil),
      Req("John Updated", "john@example.com", 31, "", "", Ptr(FALSE)),
      Req("Jane Smith", "John@example.com", 25, "0987654321", "456 Oak Ave",
          Ptr(TRUE)) }

ToResponse(u) ==
    [ID |-> u.ID, Name |-> u.Name, Email |-> u.Email, Age |-> u.Age,
     Phone |-> u.Phone, Address |-> u.Address, IsActive |-> u.IsActive,
     CreatedAt |-> u.CreatedAt, UpdatedAt |-> u.UpdatedAt]

UpdateFromRequest_plainBool(u, req) ==
    [u EXCEPT !.Name = req.Name, !.Email = req.Email, !.Age = req.Age,
              !.Phone = req.Phone, !.Address = req.Address,
              !.IsActive = req.IsActive # Nil /\ Deref(req.IsActive)]

UpdateFromRequest(u, req) ==
    [u EXCEPT !.Name = req.Name, !.Email = req.Email, !.Age = req.Age,
              !.Phone = req.Phone, !.Address = req.Address,
              !.IsActive = IF req.IsActive # Nil THEN Deref(req.IsActive) ELSE @]

\* The entity CreateUser builds before the gateway assigns ID and timestamps.
NewUser(req) ==
    [ID |-> 0, Name |-> req.Name, Email |-> req.Email, Age |-> req.Age,
     Phone |-> req.Phone, Address |-> req.Address,
     IsActive |-> IF req.IsActive # Nil THEN Deref(req.IsActive) ELSE TRUE,
     CreatedAt |-> 0, UpdatedAt |-> 0, DeletedAt |-> Nil]

Marshal_noPhone(u) ==
    [id |-> u.ID, name |-> u.Name, email |-> u.Email, age |-> u.Age,
     phone |-> "", address |-> u.Address, is_active |-> u.IsActive,
     created_at |-> u.CreatedAt, updated_at |-> u.UpdatedAt]

\* json.Marshal(user): DeletedAt carries the tag json:"-" and is left out.
Marshal(u) ==
    [id |-> u.ID, name |-> u.Name, email |-> u.Email, age |-> u.Age,
     phone |-> u.Phone, address |-> u.Address, is_active |-> u.IsActive,
     created_at |-> u.CreatedAt, updated_at |-> u.UpdatedAt]

\* What Redis holds under a key that something else than cacheUser wrote:
\* text that is no JSON.
InvalidJSON == [raw |-> "invalid json"]

\* json.Unmarshal returns no error: the text is the JSON of a user.
Decodes(j) == "id" \in DOMAIN j

\* json.Unmarshal into a zero models.User: DeletedAt keeps its zero value.
Unmarshal(j) ==
    [ID |-> j.id, Name |-> j.name, Email |-> j.email, Age |-> j.age,
     Phone |-> j.phone, Address |-> j.address, IsActive |-> j.is_active,
     CreatedAt |-> j.created_at, UpdatedAt |-> j.updated_at, DeletedAt |-> Nil]

-----------------------------------------------------------------------------
(* Errors *)

NoError == <<>>
ErrNotFound == <<"user not found">>
\* PostgreSQL's error for the unique index; gorm.Config sets no TranslateError,
\* so it reaches the service as it is.
ErrDuplicate == <<"duplicate key value violates unique constraint">>
ErrAlreadyExists(email) == <<"user with email ", email, " already exists">>
\* What GORM reports when the statement could not be run at all.
ErrStorage == <<"database connection failed">>
Wrap_prefixOnly(prefix, err) == <<prefix>>

Wrap(prefix, err) == <<prefix>> \o err

RECURSIVE Message(_)
\* err.Error()
Message(err) == IF err = <<>> THEN "" ELSE Head(err) \o Message(Tail(err))

\* No HTTP request was answered yet.
NoResponse ==
    [handler |-> "none",
     request |-> [id |-> "", body |-> Nil, page |-> Nil, page_size |-> Nil],
     status |-> 0, error |-> NoError, data |-> Nil, list |-> <<>>,
     pagination |-> Nil]

-----------------------------------------------------------------------------
(* repository: the gateway over table users *)

\* The gateway methods, and which of them fail for now: a failing method has
\* no effect on the table and returns GORM's error.
GatewayMethods ==
    {"Create", "GetByID", "GetByEmail", "GetAll", "Update", "Delete", "Count"}
Fails(call) == call \in failing

Live(u) == u.DeletedAt = Nil

\* Positions of the rows a query with the soft-delete scope sees.
LivePos(tbl) == {i \in DOMAIN tbl : Live(tbl[i])}

RECURSIVE SelectLive(_)
\* SELECT * FROM users WHERE deleted_at IS NULL, in scan order.
SelectLive(tbl) ==
    IF tbl = <<>> THEN <<>>
    ELSE IF Live(Head(tbl)) THEN <<Head(tbl)>> \o SelectLive(Tail(tbl))
    ELSE SelectLive(Tail(tbl))

\* The unique index idx_users_email covers every row, soft-deleted or not.
UniqueViolation_none(tbl, email, id) == FALSE

UniqueViolation(tbl, email, id) ==
    \E i \in DOMAIN tbl : tbl[i].Email = email /\ tbl[i].ID # id

RepoGetByID_unscoped(tbl, id) ==
    LET hit == {i \in DOMAIN tbl : tbl[i].ID = id}
    IN  IF Fails("GetByID") THEN [user |-> Nil, err |-> ErrStorage]
        ELSE IF hit = {} THEN [user |-> Nil, err |-> ErrNotFound]
        ELSE [user |-> Ptr(tbl[CHOOSE i \in hit : TRUE]), err |-> NoError]

\* db.First(&user, id)
RepoGetByID(tbl, id) ==
    LET hit == {i \in LivePos(tbl) : tbl[i].ID = id}
    IN  IF Fails("GetByID") THEN [user |-> Nil, err |-> ErrStorage]
        ELSE IF hit = {} THEN [user |-> Nil, err |-> ErrNotFound]
        ELSE [user |-> Ptr(tbl[CHOOSE i \in hit : TRUE]), err |-> NoError]

\* db.Where("email = ?", email).First(&user): lowest id first.
RepoGetByEmail(tbl, email) ==
    LET hit == {i \in LivePos(tbl) : tbl[i].Email = email}
    IN  IF Fails("GetByEmail") THEN [user |-> Nil, err |-> ErrStorage]
        ELSE IF hit = {} THEN [user |-> Nil, err |-> ErrNotFound]
        ELSE [user |-> Ptr(tbl[CHOOSE i \in hit :
                                  \A j \in hit : tbl[i].ID <= tbl[j].ID]),
              err |-> NoError]

RepoCreate_lowestFree(tbl, seq, user, t) ==
    LET id == Cardinality(LivePos(tbl)) + 1
        row == [user EXCEPT !.ID = id,
                            !.IsActive = IF @ = FALSE THEN TRUE ELSE @,
                            !.CreatedAt = t, !.UpdatedAt = t]
    IN  IF Fails("Create")
        THEN [users |-> tbl, nextID |-> seq, user |-> user, err |-> ErrStorage]
        ELSE IF UniqueViolation(tbl, user.Email, seq)
        THEN [users |-> tbl, nextID |-> seq + 1, user |-> user, err |-> ErrDuplicate]
        ELSE [users |-> Append(tbl, row), nextID |-> seq + 1, user |-> row,
              err |-> NoError]

\* db.Create(user).  The sequence value is consumed even when the insert
\* fails.  is_active has gorm:"default:true": GORM replaces a zero value
\* (false) of such a field by the default, in the row and in the struct.
\* The insert also fails when a row has the sequence value as its primary
\* key already.
RepoCreate(tbl, seq, user, t) ==
    LET row == [user EXCEPT !.ID = seq,
                            !.IsActive = IF @ = FALSE THEN TRUE ELSE @,
                            !.CreatedAt = t, !.UpdatedAt = t]
    IN  IF Fails("Create")
        THEN [users |-> tbl, nextID |-> seq, user |-> user, err |-> ErrStorage]
        ELSE IF UniqueViolation(tbl, user.Email, seq)
                \/ \E i \in DOMAIN tbl : tbl[i].ID = seq
        THEN [users |-> tbl, nextID |-> seq + 1, user |-> user, err |-> ErrDuplicate]
        ELSE [users |-> Append(tbl, row), nextID |-> seq + 1, user |-> row,
              err |-> NoError]

\* The table after row i got new contents; PostgreSQL writes a new tuple
\* version, which a later scan meets in place (moved = FALSE) or last.
Rewrite(tbl, i, row, moved) ==
    IF moved
    THEN SubSeq(tbl, 1, i - 1) \o SubSeq(tbl, i + 1, Len(tbl)) \o <<row>>
    ELSE [tbl EXCEPT ![i] = row]

RepoUpdate_noStamp(tbl, user, t, moved) ==
    LET live == {i \in LivePos(tbl) : tbl[i].ID = user.ID}
    IN  IF Fails("Update")
        THEN [users |-> tbl, user |-> user, err |-> ErrStorage]
        ELSE IF UniqueViolation(tbl, user.Email, user.ID)
        THEN [users |-> tbl, user |-> user, err |-> ErrDuplicate]
        ELSE IF live # {}
        THEN [users |-> Rewrite(tbl, CHOOSE i \in live : TRUE, user, moved),
              user |-> user, err |-> NoError]
        ELSE [users |-> Append(tbl, user), user |-> user, err |-> NoError]

\* db.Save(user): UPDATE ... WHERE id = ? AND deleted_at IS NULL writing every
\* column; when no row was affected Save falls back to INSERT ... ON CONFLICT
\* (id) DO UPDATE, which rewrites a soft-deleted row (deleted_at included,
\* created_at excluded) or inserts a new one, with the default of is_active
\* in place of false as in Create.
RepoUpdate(tbl, user, t, moved) ==
    LET live == {i \in LivePos(tbl) : tbl[i].ID = user.ID}
        dead == {i \in DOMAIN tbl : tbl[i].ID = user.ID}
        row  == [user EXCEPT !.UpdatedAt = t]
        ins  == [row EXCEPT !.IsActive = IF @ = FALSE THEN TRUE ELSE @]
    IN  IF Fails("Update")
        THEN [users |-> tbl, user |-> user, err |-> ErrStorage]
        ELSE IF UniqueViolation(tbl, user.Email, user.ID)
        THEN [users |-> tbl, user |-> user, err |-> ErrDuplicate]
        ELSE IF live # {}
        THEN [users |-> Rewrite(tbl, CHOOSE i \in live : TRUE, row, moved),
              user |-> row, err |-> NoError]
        ELSE IF dead # {}
        THEN LET i == CHOOSE i \in dead : TRUE
                 up == [ins EXCEPT !.CreatedAt = tbl[i].CreatedAt]
             IN  [users |-> Rewrite(tbl, i, up, moved), user |-> ins,
                  err |-> NoError]
        ELSE [users |-> Append(tbl, ins), user |-> ins, err |-> NoError]

\* db.Delete(&models.User{}, id): UPDATE users SET deleted_at = now WHERE
\* id = ? AND deleted_at IS NULL; RowsAffected = 0 is "user not found".
RepoDelete(tbl, id, t) ==
    LET live == {i \in LivePos(tbl) : tbl[i].ID = id}
    IN  IF Fails("Delete") THEN [users |-> tbl, err |-> ErrStorage]
        ELSE IF live = {} THEN [users |-> tbl, err |-> ErrNotFound]
        ELSE LET i == CHOOSE i \in live : TRUE
             IN  [users |-> [tbl EXCEPT ![i].DeletedAt = Ptr(t)], err |-> NoError]

\* db.Offset(offset).Limit(limit).Find(&users): GORM leaves out OFFSET when
\* offset <= 0 and LIMIT when limit <= 0.
RepoGetAll(tbl, offset, limit) ==
    LET all  == SelectLive(tbl)
        from == IF ~LessThanOne(offset) THEN Skipped(offset, Len(all)) + 1 ELSE 1
        to   == IF limit > 0 THEN Min(Len(all), from + limit - 1) ELSE Len(all)
    IN  IF Fails("GetAll") THEN [users |-> <<>>, err |-> ErrStorage]
        ELSE [users |-> SubSeq(all, from, to), err |-> NoError]

\* db.Model(&models.User{}).Count(&count)
RepoCount(tbl) ==
    IF Fails("Count") THEN [count |-> 0, err |-> ErrStorage]
    ELSE [count |-> Cardinality(LivePos(tbl)), err |-> NoError]

-----------------------------------------------------------------------------
(* service: the cache-aside helpers *)

\* fmt.Sprintf("user:%d", id)
Key(id) == <<"user:", id>>

\* The Redis commands the service sends; a failing command has no effect on
\* the cache and returns an error.
RedisCommands == {"Get", "Set", "Del"}

\* redisClient.Set(ctx, key, value, ttl)
RedisSet(c, key, value, t, ttl) ==
    IF Fails("Set") THEN c
    ELSE [k \in DOMAIN c \cup {key} |->
             IF k = key THEN [json |-> value, expireAt |-> t + ttl] ELSE c[k]]

\* redisClient.Del(ctx, key)
RedisDel(c, key) ==
    IF Fails("Del") THEN c ELSE [k \in DOMAIN c \ {key} |-> c[k]]

Expired_never(c, key, t) == FALSE

\* Redis drops a key once its time to live has run out.
Expired(c, key, t) == c[key].expireAt <= t

\* redisClient.Get(ctx, key).Result(): the value, or Nil with an error
\* (redis.Nil for a key that is not there, or the failure).
RedisGet(c, key, t) ==
    IF Fails("Get") \/ key \notin DOMAIN c \/ Expired(c, key, t) THEN Nil
    ELSE Ptr(c[key].json)

cacheUser_ifAbsent(c, on, user, t) ==
    IF ~on \/ Key(user.ID) \in DOMAIN c THEN c
    ELSE RedisSet(c, Key(user.ID), Marshal(user), t, CacheTTL)

cacheUser(c, on, user, t) ==
    IF ~on THEN c ELSE RedisSet(c, Key(user.ID), Marshal(user), t, CacheTTL)

getCachedUser_miss(c, on, id, t) == Nil

getCachedUser_zeroOnError(c, on, id, t) ==
    IF ~on THEN Nil
    ELSE IF Fails("Get")
    THEN Ptr([ID |-> 0, Name |-> "", Email |-> "", Age |-> 0, Phone |-> "",
              Address |-> "", IsActive |-> FALSE, CreatedAt |-> 0,
              UpdatedAt |-> 0, DeletedAt |-> Nil])
    ELSE LET userJSON == RedisGet(c, Key(id), t)
         IN  IF userJSON = Nil THEN Nil ELSE Ptr(Unmarshal(Deref(userJSON)))

getCachedUser_ignoresDecodeError(c, on, id, t) ==
    IF ~on THEN Nil
    ELSE LET userJSON == RedisGet(c, Key(id), t)
         IN  IF userJSON = Nil THEN Nil
             ELSE IF ~Decodes(Deref(userJSON))
             THEN Ptr([ID |-> 0, Name |-> "", Email |-> "", Age |-> 0,
                       Phone |-> "", Address |-> "", IsActive |-> FALSE,
                       CreatedAt |-> 0, UpdatedAt |-> 0, DeletedAt |-> Nil])
             ELSE Ptr(Unmarshal(Deref(userJSON)))

getCachedUser(c, on, id, t) ==
    IF ~on THEN Nil
    ELSE LET userJSON == RedisGet(c, Key(id), t)
         IN  IF userJSON = Nil \/ ~Decodes(Deref(userJSON)) THEN Nil
             ELSE Ptr(Unmarshal(Deref(userJSON)))

removeCachedUser_noop(c, on, id) == c

removeCachedUser_nextKey(c, on, id) ==
    IF ~on THEN c ELSE RedisDel(c, Key(id + 1))

removeCachedUser(c, on, id) ==
    IF ~on THEN c ELSE RedisDel(c, Key(id))

RECURSIVE cacheAll(_, _, _, _)
cacheAll_firstOnly(c, on, us, t) ==
    IF us = <<>> THEN c ELSE cacheUser(c, on, Head(us), t)

\* the loop of GetAllUsers: s.cacheUser(&user) for each returned row
cacheAll(c, on, us, t) ==
    IF us = <<>> THEN c
    ELSE cacheAll(cacheUser(c, on, Head(us), t), on, Tail(us), t)

-----------------------------------------------------------------------------
(* service: the operations *)

\* The commands a cache helper sends to Redis: none without a client,
\* else one of its kind for the key of the user.
GetSent(on, id) == IF on THEN << <<"Get", Key(id)>> >> ELSE <<>>
SetSent_retried(on, user) ==
    IF ~on THEN <<>>
    ELSE IF Fails("Set")
    THEN << <<"Set", Key(user.ID)>>, <<"Set", Key(user.ID)>> >>
    ELSE << <<"Set", Key(user.ID)>> >>

SetSent(on, user) == IF on THEN << <<"Set", Key(user.ID)>> >> ELSE <<>>
DelSent(on, id) == IF on THEN << <<"Del", Key(id)>> >> ELSE <<>>

RECURSIVE SetSentAll(_, _)
\* the loop of GetAllUsers
SetSentAll(on, us) ==
    IF us = <<>> THEN <<>> ELSE SetSent(on, Head(us)) \o SetSentAll(on, Tail(us))

\* What the last call was and returned; cacheCalls are the commands it sent
\* to Redis, in order.
Result(op, id, req, page, pageSize, resp, list, total, err) ==
    [op |-> op, id |-> id, req |-> req, page |-> Int64(0), pageSize |-> pageSize,
     resp |-> resp, list |-> list, total |-> total, err |-> err,
     cacheCalls |-> <<>>]

CreateRejects_onFailure(existing) ==
    existing.user # Nil \/ existing.err = ErrStorage

CreateRejects_never(existing) == FALSE

\* existingUser != nil, in CreateUser
CreateRejects(existing) == existing.user # Nil

CreateUser(req) ==
    LET existing == RepoGetByEmail(users, req.Email)
        c == RepoCreate(users, nextID, NewUser(req), now)
    IN  IF CreateRejects(existing)
        THEN /\ res' = Result("CreateUser", 0, Ptr(req), 0, 0, Nil, <<>>, 0,
                              ErrAlreadyExists(req.Email))
             /\ calls' = << <<"GetByEmail", req.Email>> >>
             /\ UNCHANGED <<users, nextID, cache, redis, now>>
        ELSE /\ nextID <= MaxID
             /\ calls' = << <<"GetByEmail", req.Email>>, <<"Create", req.Email>> >>
             /\ users' = c.users
             /\ nextID' = c.nextID
             /\ UNCHANGED <<redis, now>>
             /\ IF c.err # NoError
                THEN /\ res' = Result("CreateUser", 0, Ptr(req), 0, 0, Nil, <<>>, 0,
                                      Wrap("failed to create user: ", c.err))
                     /\ UNCHANGED cache
                ELSE /\ cache' = cacheUser(cache, redis, c.user, now)
                     /\ res' = [Result("CreateUser", 0, Ptr(req), 0, 0,
                                       Ptr(ToResponse(c.user)), <<>>, 0, NoError)
                                  EXCEPT !.cacheCalls = SetSent(redis, c.user)]

GetUserByID(id) ==
    LET cached == getCachedUser(cache, redis, id, now)
        g == RepoGetByID(users, id)
    IN  IF cached # Nil
        THEN /\ res' = [Result("GetUserByID", id, Nil, 0, 0,
                               Ptr(ToResponse(Deref(cached))), <<>>, 0, NoError)
                          EXCEPT !.cacheCalls = GetSent(redis, id)]
             /\ calls' = <<>>
             /\ UNCHANGED <<users, nextID, cache, redis, now>>
        ELSE /\ calls' = << <<"GetByID", id>> >>
             /\ UNCHANGED <<users, nextID, redis, now>>
             /\ IF g.err # NoError
                THEN /\ res' = [Result("GetUserByID", id, Nil, 0, 0, Nil, <<>>, 0,
                                       g.err)
                                  EXCEPT !.cacheCalls = GetSent(redis, id)]
                     /\ UNCHANGED cache
                ELSE /\ cache' = cacheUser(cache, redis, Deref(g.user), now)
                     /\ res' = [Result("GetUserByID", id, Nil, 0, 0,
                                       Ptr(ToResponse(Deref(g.user))), <<>>, 0,
                                       NoError)
                                  EXCEPT !.cacheCalls =
                                            GetSent(redis, id)
                                            \o SetSent(redis, Deref(g.user))]

\* if page < 1 { page = 1 }
NormPage(page) == IF LessThanOne(page) THEN Int64(1) ELSE page

\* if pageSize < 1 || pageSize > 100 { pageSize = 10 }
NormPageSize(pageSize) ==
    IF pageSize < 1 \/ pageSize > MaxPageSize THEN DefaultPageSize ELSE pageSize

\* offset := (page - 1) * pageSize, after both were normalised
PageOffset(page, pageSize) == Mul(Dec(page), pageSize)

RECURSIVE Responses(_)
Responses(us) ==
    IF us = <<>> THEN <<>> ELSE <<ToResponse(Head(us))>> \o Responses(Tail(us))

GetAllUsers_cachesBeforeCount(page, pageSize) ==
    LET p == NormPage(page)
        ps == NormPageSize(pageSize)
        offset == PageOffset(p, ps)
        all == RepoGetAll(users, offset, ps)
        total == RepoCount(users)
        failed(err) == [Result("GetAllUsers", 0, Nil, 0, pageSize, Nil, <<>>, 0,
                               err) EXCEPT !.page = page]
    IN  /\ UNCHANGED <<users, nextID, redis, now>>
        /\ IF all.err # NoError
           THEN /\ calls' = << <<"GetAll", offset, ps>> >>
                /\ res' = failed(Wrap("failed to get users: ", all.err))
                /\ UNCHANGED cache
           ELSE /\ calls' = << <<"GetAll", offset, ps>>, <<"Count">> >>
                /\ cache' = cacheAll(cache, redis, all.users, now)
                /\ res' = IF total.err # NoError
                          THEN failed(Wrap("failed to count users: ", total.err))
                          ELSE [Result("GetAllUsers", 0, Nil, 0, pageSize, Nil,
                                       Responses(all.users), total.count, NoError)
                                  EXCEPT !.page = page]

GetAllUsers(page, pageSize) ==
    LET p == NormPage(page)
        ps == NormPageSize(pageSize)
        offset == PageOffset(p, ps)
        all == RepoGetAll(users, offset, ps)
        total == RepoCount(users)
        failed(err) == [Result("GetAllUsers", 0, Nil, 0, pageSize, Nil, <<>>, 0,
                               err) EXCEPT !.page = page]
    IN  /\ UNCHANGED <<users, nextID, redis, now>>
        /\ IF all.err # NoError
           THEN /\ calls' = << <<"GetAll", offset, ps>> >>
                /\ res' = failed(Wrap("failed to get users: ", all.err))
                /\ UNCHANGED cache
           ELSE IF total.err # NoError
           THEN /\ calls' = << <<"GetAll", offset, ps>>, <<"Count">> >>
                /\ res' = failed(Wrap("failed to count users: ", total.err))
                /\ UNCHANGED cache
           ELSE /\ calls' = << <<"GetAll", offset, ps>>, <<"Count">> >>
                /\ cache' = cacheAll(cache, redis, all.users, now)
                /\ res' = [Result("GetAllUsers", 0, Nil, 0, pageSize, Nil,
                                  Responses(all.users), total.count, NoError)
                             EXCEPT !.page = page,
                                    !.cacheCalls = SetSentAll(redis, all.users)]

EmailChanges_always(user, req) == TRUE

\* user.Email != req.Email
EmailChanges(user, req) == user.Email # req.Email

UpdateRejects_selfOnly(existing, id) ==
    existing.user # Nil /\ Deref(existing.user).ID = id

\* existingUser != nil && existingUser.ID != id
UpdateRejects(existing, id) ==
    existing.user # Nil /\ Deref(existing.user).ID # id

UpdateUser_fromCache(id, req) ==
    LET cached == getCachedUser(cache, redis, id, now)
        g == IF cached # Nil THEN [user |-> cached, err |-> NoError]
             ELSE RepoGetByID(users, id)
        user == Deref(g.user)
        check == EmailChanges(user, req)
        existing == RepoGetByEmail(users, req.Email)
        lookup == IF check THEN << <<"GetByEmail", req.Email>> >> ELSE <<>>
    IN  IF g.err # NoError
        THEN /\ res' = Result("UpdateUser", id, Ptr(req), 0, 0, Nil, <<>>, 0, g.err)
             /\ calls' = << <<"GetByID", id>> >>
             /\ UNCHANGED <<users, nextID, cache, redis, now>>
        ELSE IF check /\ UpdateRejects(existing, id)
        THEN /\ res' = Result("UpdateUser", id, Ptr(req), 0, 0, Nil, <<>>, 0,
                              ErrAlreadyExists(req.Email))
             /\ calls' = << <<"GetByID", id>>, <<"GetByEmail", req.Email>> >>
             /\ UNCHANGED <<users, nextID, cache, redis, now>>
        ELSE \E moved \in BOOLEAN :
             LET u == RepoUpdate(users, UpdateFromRequest(user, req), now, moved)
             IN  /\ calls' = << <<"GetByID", id>> >> \o lookup
                                \o << <<"Update", id>> >>
                 /\ users' = u.users
                 /\ UNCHANGED <<nextID, redis, now>>
                 /\ IF u.err # NoError
                    THEN /\ res' = Result("UpdateUser", id, Ptr(req), 0, 0, Nil, <<>>,
                                          0, Wrap("failed to update user: ", u.err))
                         /\ UNCHANGED cache
                    ELSE /\ cache' = cacheUser(cache, redis, u.user, now)
                         /\ res' = Result("UpdateUser", id, Ptr(req), 0, 0,
                                          Ptr(ToResponse(u.user)), <<>>, 0, NoError)

UpdateUser_cachesFirst(id, req) ==
    LET g == RepoGetByID(users, id)
        user == Deref(g.user)
        check == EmailChanges(user, req)
        existing == RepoGetByEmail(users, req.Email)
        lookup == IF check THEN << <<"GetByEmail", req.Email>> >> ELSE <<>>
    IN  IF g.err # NoError
        THEN /\ res' = Result("UpdateUser", id, Ptr(req), 0, 0, Nil, <<>>, 0, g.err)
             /\ calls' = << <<"GetByID", id>> >>
             /\ UNCHANGED <<users, nextID, cache, redis, now>>
        ELSE IF check /\ UpdateRejects(existing, id)
        THEN /\ res' = Result("UpdateUser", id, Ptr(req), 0, 0, Nil, <<>>, 0,
                              ErrAlreadyExists(req.Email))
             /\ calls' = << <<"GetByID", id>>, <<"GetByEmail", req.Email>> >>
             /\ UNCHANGED <<users, nextID, cache, redis, now>>
        ELSE \E moved \in BOOLEAN :
             LET u == RepoUpdate(users, UpdateFromRequest(user, req), now, moved)
             IN  /\ calls' = << <<"GetByID", id>> >> \o lookup
                                \o << <<"Update", id>> >>
                 /\ users' = u.users
                 /\ UNCHANGED <<nextID, redis, now>>
                 /\ cache' = cacheUser(cache, redis, UpdateFromRequest(user, req), now)
                 /\ IF u.err # NoError
                    THEN res' = Result("UpdateUser", id, Ptr(req), 0, 0, Nil, <<>>,
                                       0, Wrap("failed to update user: ", u.err))
                    ELSE res' = Result("UpdateUser", id, Ptr(req), 0, 0,
                                       Ptr(ToResponse(u.user)), <<>>, 0, NoError)

UpdateUser(id, req) ==
    LET g == RepoGetByID(users, id)
        user == Deref(g.user)
        check == EmailChanges(user, req)
        existing == RepoGetByEmail(users, req.Email)
        lookup == IF check THEN << <<"GetByEmail", req.Email>> >> ELSE <<>>
    IN  IF g.err # NoError
        THEN /\ res' = Result("UpdateUser", id, Ptr(req), 0, 0, Nil, <<>>, 0, g.err)
             /\ calls' = << <<"GetByID", id>> >>
             /\ UNCHANGED <<users, nextID, cache, redis, now>>
        ELSE IF check /\ UpdateRejects(existing, id)
        THEN /\ res' = Result("UpdateUser", id, Ptr(req), 0, 0, Nil, <<>>, 0,
                              ErrAlreadyExists(req.Email))
             /\ calls' = << <<"GetByID", id>>, <<"GetByEmail", req.Email>> >>
             /\ UNCHANGED <<users, nextID, cache, redis, now>>
        ELSE \E moved \in BOOLEAN :
             LET u == RepoUpdate(users, UpdateFromRequest(user, req), now, moved)
             IN  /\ calls' = << <<"GetByID", id>> >> \o lookup
                                \o << <<"Update", id>> >>
                 /\ users' = u.users
                 /\ UNCHANGED <<nextID, redis, now>>
                 /\ IF u.err # NoError
                    THEN /\ res' = Result("UpdateUser", id, Ptr(req), 0, 0, Nil, <<>>,
                                          0, Wrap("failed to update user: ", u.err))
                         /\ UNCHANGED cache
                    ELSE /\ cache' = cacheUser(cache, redis, u.user, now)
                         /\ res' = [Result("UpdateUser", id, Ptr(req), 0, 0,
                                           Ptr(ToResponse(u.user)), <<>>, 0,
                                           NoError)
                                      EXCEPT !.cacheCalls = SetSent(redis, u.user)]

DeleteUser_alwaysInvalidates(id) ==
    LET d == RepoDelete(users, id, now)
    IN  /\ calls' = << <<"Delete", id>> >>
        /\ users' = d.users
        /\ UNCHANGED <<nextID, redis, now>>
        /\ cache' = removeCachedUser(cache, redis, id)
        /\ res' = Result("DeleteUser", id, Nil, 0, 0, Nil, <<>>, 0,
                         IF d.err # NoError
                         THEN Wrap("failed to delete user: ", d.err) ELSE NoError)

DeleteUser(id) ==
    LET d == RepoDelete(users, id, now)
    IN  /\ calls' = << <<"Delete", id>> >>
        /\ users' = d.users
        /\ UNCHANGED <<nextID, redis, now>>
        /\ IF d.err # NoError
           THEN /\ res' = Result("DeleteUser", id, Nil, 0, 0, Nil, <<>>, 0,
                                 Wrap("failed to delete user: ", d.err))
                /\ UNCHANGED cache
           ELSE /\ cache' = removeCachedUser(cache, redis, id)
                /\ res' = [Result("DeleteUser", id, Nil, 0, 0, Nil, <<>>, 0, NoError)
                             EXCEPT !.cacheCalls = DelSent(redis, id)]

\* Time passes; Redis drops the entries whose time to live has run out.
Tick ==
    /\ now < MaxTime
    /\ now' = Min(now + TickStep, MaxTime)
    /\ cache' = [k \in {k \in DOMAIN cache : ~Expired(cache, k, now')} |-> cache[k]]
    /\ res' = Result("Tick", 0, Nil, 0, 0, Nil, <<>>, 0, NoError)
    /\ calls' = <<>>
    /\ UNCHANGED <<users, nextID, redis>>

-----------------------------------------------------------------------------
(* controllers: the HTTP handlers of /users and /users/:id *)

\* A request body is Nil when it is no JSON document, and otherwise the JSON
\* object: a record of its members, each <<type, value>>.
Str(s) == <<"string", s>>
Num(n) == <<"number", n>>
Bool(b) == <<"bool", b>>

\* The JSON type each field of UserRequest decodes from.
FieldType ==
    [name |-> "string", email |-> "string", age |-> "number",
     phone |-> "string", address |-> "string", is_active |-> "bool"]

Member(body, k, zero) == IF k \in DOMAIN body THEN body[k][2] ELSE zero

\* c.ShouldBindJSON(&req): decodes the body, a member with the wrong type
\* being an error and a missing one leaving the zero value.  gin then runs
\* its validator, which reads the struct tag binding; the fields of
\* UserRequest carry the tag validate instead, so no rule applies to them.
ShouldBindJSON(body) ==
    IF body = Nil THEN [req |-> Nil, err |-> <<"invalid character">>]
    ELSE LET b == Deref(body)
         IN  IF \E k \in DOMAIN b \cap DOMAIN FieldType : b[k][1] # FieldType[k]
             THEN [req |-> Nil, err |-> <<"cannot unmarshal">>]
             ELSE [req |-> Ptr(Req(Member(b, "name", ""), Member(b, "email", ""),
                                   Member(b, "age", 0), Member(b, "phone", ""),
                                   Member(b, "address", ""),
                                   IF "is_active" \in DOMAIN b
                                   THEN Ptr(b["is_active"][2]) ELSE Nil)),
                   err |-> NoError]

\* c.JSON(status, gin.H{...})
Response(handler, request, status, error, data) ==
    [handler |-> handler, request |-> request, status |-> status,
     error |-> error, data |-> data, list |-> <<>>, pagination |-> Nil]

\* What a request carries: the path parameter id, the body, the query
\* parameters page and page_size; "" and Nil where there is none.
Request(idParam, body, pageParam, pageSizeParam) ==
    [id |-> idParam, body |-> body, page |-> pageParam,
     page_size |-> pageSizeParam]

\* The request was answered without a call of the service.
NoServiceCall ==
    /\ res' = Result("none", 0, Nil, 0, 0, Nil, <<>>, 0, NoError)
    /\ calls' = <<>>
    /\ UNCHANGED <<users, nextID, cache, redis, now>>

\* POST /users
UserController_CreateUser(body) ==
    LET b == ShouldBindJSON(body)
        rq == Request("", body, Nil, Nil)
    IN  IF b.err # NoError
        THEN /\ http' = Response("CreateUser", rq, 400, <<"Invalid request body">>, Nil)
             /\ NoServiceCall
        ELSE /\ CreateUser(Deref(b.req))
             /\ http' = IF res'.err # NoError
                        THEN Response("CreateUser", rq, 400, res'.err, Nil)
                        ELSE Response("CreateUser", rq, 201, NoError, res'.resp)

\* uint(id), for the identifiers the model has
Uint(w) == w[1] + w[2] * LimbBase

\* GET /users/:id
UserController_GetUser(idParam) ==
    LET id == ParseUint(idParam)
        rq == Request(idParam, Nil, Nil, Nil)
    IN  IF id.err # "none"
        THEN /\ http' = Response("GetUser", rq, 400, <<"Invalid user ID">>, Nil)
             /\ NoServiceCall
        ELSE /\ GetUserByID(Uint(id.value))
             /\ http' = IF res'.err # NoError
                        THEN Response("GetUser", rq, 404, res'.err, Nil)
                        ELSE Response("GetUser", rq, 200, NoError, res'.resp)

\* Go's integer division, which truncates toward zero; b # 0.
Quo(a, b) ==
    LET q == (IF a < 0 THEN 0 - a ELSE a) \div (IF b < 0 THEN 0 - b ELSE b)
    IN  IF (a < 0) = (b < 0) THEN q ELSE 0 - q

\* GET /users?page=..&page_size=..; a query parameter that is not there is
\* Nil.  The division panics for page_size 0, which gin's Recovery turns
\* into status 500.
UserController_GetUsers(pageParam, pageSizeParam) ==
    LET page == Atoi(IF pageParam = Nil THEN "1" ELSE Deref(pageParam))
        pageSize == IntValue(Atoi(IF pageSizeParam = Nil THEN "10"
                                  ELSE Deref(pageSizeParam)))
        rq == Request("", Nil, pageParam, pageSizeParam)
    IN  /\ GetAllUsers(page, pageSize)
        /\ http' =
              IF res'.err # NoError THEN Response("GetUsers", rq, 500, res'.err, Nil)
              ELSE IF pageSize = 0
              THEN Response("GetUsers", rq, 500, <<"integer divide by zero">>, Nil)
              ELSE [Response("GetUsers", rq, 200, NoError, Nil) EXCEPT
                       !.list = res'.list,
                       !.pagination =
                           Ptr([current_page |-> page, page_size |-> pageSize,
                                total_items |-> res'.total,
                                total_pages |->
                                    Quo(res'.total + pageSize - 1, pageSize)])]

\* PUT /users/:id
UserController_UpdateUser_anyErrorIs404(idParam, body) ==
    LET id == ParseUint(idParam)
        b == ShouldBindJSON(body)
        rq == Request(idParam, body, Nil, Nil)
    IN  IF id.err # "none"
        THEN /\ http' = Response("UpdateUser", rq, 400, <<"Invalid user ID">>, Nil)
             /\ NoServiceCall
        ELSE IF b.err # NoError
        THEN /\ http' = Response("UpdateUser", rq, 400, <<"Invalid request body">>, Nil)
             /\ NoServiceCall
        ELSE /\ UpdateUser(Uint(id.value), Deref(b.req))
             /\ http' = IF res'.err # NoError
                        THEN Response("UpdateUser", rq, 404, res'.err, Nil)
                        ELSE Response("UpdateUser", rq, 200, NoError, res'.resp)

UserController_UpdateUser(idParam, body) ==
    LET id == ParseUint(idParam)
        b == ShouldBindJSON(body)
        rq == Request(idParam, body, Nil, Nil)
    IN  IF id.err # "none"
        THEN /\ http' = Response("UpdateUser", rq, 400, <<"Invalid user ID">>, Nil)
             /\ NoServiceCall
        ELSE IF b.err # NoError
        THEN /\ http' = Response("UpdateUser", rq, 400, <<"Invalid request body">>, Nil)
             /\ NoServiceCall
        ELSE /\ UpdateUser(Uint(id.value), Deref(b.req))
             /\ http' = IF Message(res'.err) = "user not found"
                        THEN Response("UpdateUser", rq, 404, res'.err, Nil)
                        ELSE IF res'.err # NoError
                        THEN Response("UpdateUser", rq, 400, res'.err, Nil)
                        ELSE Response("UpdateUser", rq, 200, NoError, res'.resp)

\* DELETE /users/:id
UserController_DeleteUser(idParam) ==
    LET id == ParseUint(idParam)
        rq == Request(idParam, Nil, Nil, Nil)
    IN  IF id.err # "none"
        THEN /\ http' = Response("DeleteUser", rq, 400, <<"Invalid user ID">>, Nil)
             /\ NoServiceCall
        ELSE /\ DeleteUser(Uint(id.value))
             /\ http' = IF Message(res'.err) = "failed to delete user: user not found"
                        THEN Response("DeleteUser", rq, 404, <<"User not found">>, Nil)
                        ELSE IF res'.err # NoError
                        THEN Response("DeleteUser", rq, 500, res'.err, Nil)
                        ELSE Response("DeleteUser", rq, 200, NoError, Nil)

-----------------------------------------------------------------------------
(* Spec: sequential calls of the service on an empty table, all within the *)
(* same minute.  TimeSpec: the same calls with time passing between them.  *)

IDs == 1..MaxID
Pages == {Int64(1), Int64(2)}
PageSizes == {0, 1}

Init ==
    /\ users = <<>>
    /\ nextID = 1
    /\ cache = <<>>
    /\ redis \in BOOLEAN
    /\ now = 0
    /\ res = Result("none", 0, Nil, 0, 0, Nil, <<>>, 0, NoError)
    /\ calls = <<>>
    /\ http = NoResponse
    /\ failing = {}
    /\ inflight = <<>>

\* A step of the service called directly: no HTTP request, no call under
\* way beside it, no change in what fails.
Direct == UNCHANGED <<http, failing, inflight>>

Next ==
    \/ \E req \in Requests : CreateUser(req) /\ Direct
    \/ \E id \in IDs : GetUserByID(id) /\ Direct
    \/ \E page \in Pages, pageSize \in PageSizes :
          GetAllUsers(page, pageSize) /\ Direct
    \/ \E id \in IDs, req \in Requests : UpdateUser(id, req) /\ Direct
    \/ \E id \in IDs : DeleteUser(id) /\ Direct

Spec == Init /\ [][Next]_vars

TimedIDs == 1..MaxTimedID
TimedRequests == Requests
TimedPages == {Int64(1)}

\* CreateUser while the sequence has handed out at most MaxTimedID values.
TimedCreateUser(req) == CreateUser(req) /\ nextID' <= MaxTimedID + 1

TimeNext ==
    \/ \E req \in TimedRequests : TimedCreateUser(req) /\ Direct
    \/ \E id \in TimedIDs : GetUserByID(id) /\ Direct
    \/ \E page \in TimedPages, pageSize \in PageSizes :
          GetAllUsers(page, pageSize) /\ Direct
    \/ \E id \in TimedIDs, req \in TimedRequests : UpdateUser(id, req) /\ Direct
    \/ \E id \in TimedIDs : DeleteUser(id) /\ Direct
    \/ Tick /\ Direct

TimeSpec == Init /\ [][TimeNext]_vars

-----------------------------------------------------------------------------
(* HttpSpec: sequential HTTP requests to an empty table.  FaultSpec: the    *)
(* same requests while gateway methods and Redis commands come to fail.    *)

\* A request served by a handler: no other call under way, no change in
\* what fails.
Served == UNCHANGED <<failing, inflight>>

NotJSON == Nil

\* The bodies the clients send: two of one user, one of another user, one
\* with a member of the wrong type, one that breaks the rules of the fields
\* (name of one letter, age 200), and no JSON at all.
JohnDoe ==
    Ptr([name |-> Str("John Doe"), email |-> Str("john@example.com"),
         age |-> Num(30)])
JohnUpdated ==
    Ptr([name |-> Str("John Updated"), email |-> Str("john@example.com"),
         age |-> Num(31)])
JaneSmith ==
    Ptr([name |-> Str("Jane Smith"), email |-> Str("jane@example.com"),
         age |-> Num(25), is_active |-> Bool(FALSE)])
WrongType ==
    Ptr([name |-> Str("John Doe"), email |-> Str("john@example.com"),
         age |-> Str("thirty")])
RuleBreaker ==
    Ptr([name |-> Str("J"), email |-> Str("john@example.com"), age |-> Num(200)])

Payloads == {JohnDoe, JohnUpdated, JaneSmith, WrongType, RuleBreaker, NotJSON}

IdParams == {"1", "2", "abc", "4294967296"}
PageParams == {Nil}
PageSizeParams == {Ptr("1"), Ptr("0")}

HttpNext ==
    \/ \E body \in Payloads : UserController_CreateUser(body) /\ Served
    \/ \E idParam \in IdParams : UserController_GetUser(idParam) /\ Served
    \/ \E pageParam \in PageParams, pageSizeParam \in PageSizeParams :
          UserController_GetUsers(pageParam, pageSizeParam) /\ Served
    \/ \E idParam \in IdParams, body \in Payloads :
          UserController_UpdateUser(idParam, body) /\ Served
    \/ \E idParam \in IdParams : UserController_DeleteUser(idParam) /\ Served

HttpSpec == Init /\ [][HttpNext]_vars

\* What may fail during one request: one gateway method or Redis command.
FaultSets == {{m} : m \in GatewayMethods \cup RedisCommands}

\* The calls in s fail during the next request.  The records of the last
\* request are cleared.
Outage(s) ==
    /\ failing = {}
    /\ failing' = s
    /\ res' = Result("none", 0, Nil, 0, 0, Nil, <<>>, 0, NoError)
    /\ calls' = <<>>
    /\ http' = NoResponse
    /\ UNCHANGED <<users, nextID, cache, redis, now, inflight>>

\* A request served by a handler, after which nothing fails any more.
ServedOnce == failing' = {} /\ UNCHANGED inflight

FaultPayloads == {JohnDoe, JaneSmith}
FaultIdParams == {"1", "2"}

FaultNext ==
    \/ \E body \in FaultPayloads : UserController_CreateUser(body) /\ ServedOnce
    \/ \E idParam \in FaultIdParams :
          UserController_GetUser(idParam) /\ ServedOnce
    \/ \E pageParam \in PageParams, pageSizeParam \in PageSizeParams :
          UserController_GetUsers(pageParam, pageSizeParam) /\ ServedOnce
    \/ \E idParam \in FaultIdParams, body \in FaultPayloads :
          UserController_UpdateUser(idParam, body) /\ ServedOnce
    \/ \E idParam \in FaultIdParams :
          UserController_DeleteUser(idParam) /\ ServedOnce
    \/ \E s \in FaultSets : Outage(s)

FaultSpec == Init /\ [][FaultNext]_vars

-----------------------------------------------------------------------------
(* ConcSpec: CreateUser and UpdateUser calls served at the same time, each *)
(* by its own goroutine.  A call runs from one gateway or Redis call to    *)
(* the next in one step; the database runs each statement atomically.      *)

Procs == 1..MaxProcs

\* The state of a call: where it stands (pc), its arguments, the entity it
\* holds, and what it returned once pc is "done".
Call(pc, op, id, req, user, resp, err) ==
    [pc |-> pc, op |-> op, id |-> id, req |-> req, user |-> user,
     resp |-> resp, err |-> err]

Idle == Call("idle", "none", 0, Nil, Nil, Nil, NoError)

\* The call of p returns.
Return(p, resp, err) ==
    inflight' = [inflight EXCEPT ![p].pc = "done", ![p].resp = resp,
                                 ![p].err = err]

\* The other variables of a step that only reads the table.
ReadOnly == UNCHANGED <<users, nextID, cache, redis, now, res, calls, http, failing>>

\* CreateUser up to and including GetByEmail
CreateUser_GetByEmail(p, req) ==
    LET existing == RepoGetByEmail(users, req.Email)
        call == Call("Create", "CreateUser", 0, Ptr(req), Nil, Nil, NoError)
    IN  /\ inflight[p].pc = "idle"
        /\ ReadOnly
        /\ IF CreateRejects(existing)
           THEN inflight' = [inflight EXCEPT ![p] =
                    [call EXCEPT !.pc = "done",
                                 !.err = ErrAlreadyExists(req.Email)]]
           ELSE inflight' = [inflight EXCEPT ![p] = call]

\* CreateUser from the construction of the entity to Create
CreateUser_Create(p) ==
    LET c == RepoCreate(users, nextID, NewUser(Deref(inflight[p].req)), now)
    IN  /\ inflight[p].pc = "Create"
        /\ users' = c.users
        /\ nextID' = c.nextID
        /\ UNCHANGED <<cache, redis, now, res, calls, http, failing>>
        /\ IF c.err # NoError
           THEN Return(p, Nil, Wrap("failed to create user: ", c.err))
           ELSE inflight' = [inflight EXCEPT ![p].pc = "cacheUser",
                                            ![p].user = Ptr(c.user)]

\* UpdateUser up to and including GetByID
UpdateUser_GetByID(p, id, req) ==
    LET g == RepoGetByID(users, id)
        call == Call("Update", "UpdateUser", id, Ptr(req), g.user, Nil, NoError)
    IN  /\ inflight[p].pc = "idle"
        /\ ReadOnly
        /\ IF g.err # NoError
           THEN inflight' = [inflight EXCEPT ![p] =
                    [call EXCEPT !.pc = "done", !.err = g.err]]
           ELSE IF EmailChanges(Deref(g.user), req)
           THEN inflight' = [inflight EXCEPT ![p] =
                    [call EXCEPT !.pc = "GetByEmail"]]
           ELSE inflight' = [inflight EXCEPT ![p] = call]

\* UpdateUser: the lookup of the new e-mail
UpdateUser_GetByEmail(p) ==
    LET existing == RepoGetByEmail(users, Deref(inflight[p].req).Email)
    IN  /\ inflight[p].pc = "GetByEmail"
        /\ ReadOnly
        /\ IF UpdateRejects(existing, inflight[p].id)
           THEN Return(p, Nil, ErrAlreadyExists(Deref(inflight[p].req).Email))
           ELSE inflight' = [inflight EXCEPT ![p].pc = "Update"]

\* UpdateUser from UpdateFromRequest to Update
UpdateUser_Update(p) ==
    /\ inflight[p].pc = "Update"
    /\ UNCHANGED <<nextID, cache, redis, now, res, calls, http, failing>>
    /\ \E moved \in BOOLEAN :
          LET u == RepoUpdate(users,
                              UpdateFromRequest(Deref(inflight[p].user),
                                                Deref(inflight[p].req)),
                              now, moved)
          IN  /\ users' = u.users
              /\ IF u.err # NoError
                 THEN Return(p, Nil, Wrap("failed to update user: ", u.err))
                 ELSE inflight' = [inflight EXCEPT ![p].pc = "cacheUser",
                                                  ![p].user = Ptr(u.user)]

\* CreateUser and UpdateUser from cacheUser to the return
Call_cacheUser(p) ==
    /\ inflight[p].pc = "cacheUser"
    /\ cache' = cacheUser(cache, redis, Deref(inflight[p].user), now)
    /\ Return(p, Ptr(ToResponse(Deref(inflight[p].user))), NoError)
    /\ UNCHANGED <<users, nextID, redis, now, res, calls, http, failing>>

\* The tables the calls start on: two users created one after the other,
\* the first of them live or soft-deleted.
ConcRow(id, email, live) ==
    [ID |-> id, Name |-> "User", Email |-> email, Age |-> 20 + id,
     Phone |-> "", Address |-> "", IsActive |-> TRUE, CreatedAt |-> 0,
     UpdatedAt |-> 0, DeletedAt |-> IF live THEN Nil ELSE Ptr(0)]

ConcRequests ==
    { Req("John Doe", "john@example.com", 30, "", "", Nil),
      Req("Jane Smith", "jane@example.com", 25, "", "", Nil) }
ConcIDs == {1, 2}

ConcInit ==
    /\ \E live \in BOOLEAN :
          users = << ConcRow(1, "one@example.com", live),
                     ConcRow(2, "jane@example.com", TRUE) >>
    /\ nextID = 3
    /\ cache = <<>>
    /\ redis \in BOOLEAN
    /\ now = 0
    /\ res = Result("none", 0, Nil, 0, 0, Nil, <<>>, 0, NoError)
    /\ calls = <<>>
    /\ http = NoResponse
    /\ failing = {}
    /\ inflight = [p \in Procs |-> Idle]

ConcNext ==
    \E p \in Procs :
        \/ \E req \in ConcRequests : CreateUser_GetByEmail(p, req)
        \/ CreateUser_Create(p)
        \/ \E id \in ConcIDs, req \in ConcRequests : UpdateUser_GetByID(p, id, req)
        \/ UpdateUser_GetByEmail(p)
        \/ UpdateUser_Update(p)
        \/ Call_cacheUser(p)

ConcSpec == ConcInit /\ [][ConcNext]_vars

-----------------------------------------------------------------------------
(* RaceSpec: reads, updates and deletes of one user served at the same     *)
(* time.  The calls are cut at the same places as in ConcSpec: a step runs *)
(* up to and including one gateway or Redis call.                          *)

\* GetUserByID up to and including the Get of getCachedUser
GetUserByID_getCachedUser(p, id) ==
    LET cached == getCachedUser(cache, redis, id, now)
        call == Call("GetByID", "GetUserByID", id, Nil, Nil, Nil, NoError)
    IN  /\ inflight[p].pc = "idle"
        /\ ReadOnly
        /\ IF cached # Nil
           THEN inflight' = [inflight EXCEPT ![p] =
                    [call EXCEPT !.pc = "done",
                                 !.resp = Ptr(ToResponse(Deref(cached)))]]
           ELSE inflight' = [inflight EXCEPT ![p] = call]

\* GetUserByID: GetByID
GetUserByID_GetByID(p) ==
    LET g == RepoGetByID(users, inflight[p].id)
    IN  /\ inflight[p].pc = "GetByID"
        /\ ReadOnly
        /\ IF g.err # NoError
           THEN Return(p, Nil, g.err)
           ELSE inflight' = [inflight EXCEPT ![p].pc = "cacheUser",
                                            ![p].user = g.user]

\* GetAllUsers up to and including GetAll; user holds the rows of the page
\* the loop has not reached yet, resp the responses built so far.
GetAllUsers_GetAll(p, page, pageSize) ==
    LET ps == NormPageSize(pageSize)
        all == RepoGetAll(users, PageOffset(NormPage(page), ps), ps)
        call == Call("Count", "GetAllUsers", 0, Nil, all.users, <<>>, NoError)
    IN  /\ inflight[p].pc = "idle"
        /\ ReadOnly
        /\ IF all.err # NoError
           THEN inflight' = [inflight EXCEPT ![p] =
                    [call EXCEPT !.pc = "done",
                                 !.err = Wrap("failed to get users: ", all.err)]]
           ELSE inflight' = [inflight EXCEPT ![p] = call]

\* GetAllUsers: Count
GetAllUsers_Count(p) ==
    LET total == RepoCount(users)
    IN  /\ inflight[p].pc = "Count"
        /\ ReadOnly
        /\ IF total.err # NoError
           THEN Return(p, <<>>, Wrap("failed to count users: ", total.err))
           ELSE inflight' = [inflight EXCEPT ![p].pc = "range"]

\* GetAllUsers: one round of the loop, or the return after the last one
GetAllUsers_range(p) ==
    /\ inflight[p].pc = "range"
    /\ UNCHANGED <<users, nextID, redis, now, res, calls, http, failing>>
    /\ IF inflight[p].user = <<>>
       THEN /\ Return(p, inflight[p].resp, NoError)
            /\ UNCHANGED cache
       ELSE LET user == Head(inflight[p].user)
            IN  /\ cache' = cacheUser(cache, redis, user, now)
                /\ inflight' = [inflight EXCEPT
                       ![p].user = Tail(@),
                       ![p].resp = Append(@, ToResponse(user))]

\* DeleteUser up to and including Delete
DeleteUser_Delete(p, id) ==
    LET d == RepoDelete(users, id, now)
        call == Call("removeCachedUser", "DeleteUser", id, Nil, Nil, Nil, NoError)
    IN  /\ inflight[p].pc = "idle"
        /\ users' = d.users
        /\ UNCHANGED <<nextID, cache, redis, now, res, calls, http, failing>>
        /\ IF d.err # NoError
           THEN inflight' = [inflight EXCEPT ![p] =
                    [call EXCEPT !.pc = "done",
                                 !.err = Wrap("failed to delete user: ", d.err)]]
           ELSE inflight' = [inflight EXCEPT ![p] = call]

\* DeleteUser from removeCachedUser to the return
DeleteUser_removeCachedUser(p) ==
    /\ inflight[p].pc = "removeCachedUser"
    /\ cache' = removeCachedUser(cache, redis, inflight[p].id)
    /\ Return(p, Nil, NoError)
    /\ UNCHANGED <<users, nextID, redis, now, res, calls, http, failing>>

\* The user the calls are about, a second user that shares the page with
\* it, and two requests: one that keeps the e-mail and omits the active
\* flag, one that changes the e-mail and clears the flag.
RaceIDs == {1}
RaceRequests ==
    { Req("John Doe", "john@example.com", 30, "", "", Nil),
      Req("Johnny Doe", "johnny@example.com", 31, "", "", Ptr(FALSE)) }

RaceInit ==
    /\ users = << ConcRow(1, "john@example.com", TRUE),
                  ConcRow(2, "jane@example.com", TRUE) >>
    /\ nextID = 3
    /\ cache = <<>>
    /\ redis = TRUE
    /\ now = 0
    /\ res = Result("none", 0, Nil, 0, 0, Nil, <<>>, 0, NoError)
    /\ calls = <<>>
    /\ http = NoResponse
    /\ failing = {}
    /\ inflight = [p \in Procs |-> Idle]

RaceNext ==
    \E p \in Procs :
        \/ \E id \in RaceIDs : GetUserByID_getCachedUser(p, id)
        \/ GetUserByID_GetByID(p)
        \/ GetAllUsers_GetAll(p, Int64(1), DefaultPageSize)
        \/ GetAllUsers_Count(p)
        \/ GetAllUsers_range(p)
        \/ \E id \in RaceIDs, req \in RaceRequests : UpdateUser_GetByID(p, id, req)
        \/ UpdateUser_GetByEmail(p)
        \/ UpdateUser_Update(p)
        \/ Call_cacheUser(p)
        \/ \E id \in RaceIDs : DeleteUser_Delete(p, id)
        \/ DeleteUser_removeCachedUser(p)

RaceSpec == RaceInit /\ [][RaceNext]_vars

-----------------------------------------------------------------------------
(* EditSpec: reads, updates and deletes of two users created earlier, with *)
(* time passing between the calls.                                         *)

EditInit ==
    /\ users = << ConcRow(1, "john@example.com", TRUE),
                  ConcRow(2, "jane@example.com", TRUE) >>
    /\ nextID = 3
    /\ cache = <<>>
    /\ redis \in BOOLEAN
    /\ now = 0
    /\ res = Result("none", 0, Nil, 0, 0, Nil, <<>>, 0, NoError)
    /\ calls = <<>>
    /\ http = NoResponse
    /\ failing = {}
    /\ inflight = <<>>

\* The identifiers the callers name: those of the two users, and one that
\* no row has.
EditIDs == {1, 2, 3}

EditNext ==
    \/ \E id \in EditIDs : GetUserByID(id) /\ Direct
    \/ \E id \in EditIDs, req \in Requests : UpdateUser(id, req) /\ Direct
    \/ \E id \in EditIDs : DeleteUser(id) /\ Direct
    \/ Tick /\ Direct

EditSpec == EditInit /\ [][EditNext]_vars

-----------------------------------------------------------------------------
(* RepoSpec: the methods of the gateway called directly, as any holder of  *)
(* the UserRepository interface may call them.                             *)

\* The other variables of a call of the gateway.
GatewayOnly == UNCHANGED <<cache, redis, now, http, failing, inflight>>

\* Create of a new entity
userRepository_Create(req) ==
    LET c == RepoCreate(users, nextID, NewUser(req), now)
    IN  /\ nextID <= MaxID
        /\ users' = c.users
        /\ nextID' = c.nextID
        /\ calls' = << <<"Create", req.Email>> >>
        /\ res' = Result("Create", c.user.ID, Ptr(req), 0, 0,
                         Ptr(ToResponse(c.user)), <<>>, 0, c.err)
        /\ GatewayOnly

\* Update of an entity that carries this identifier and these fields
userRepository_Update(id, req) ==
    \E moved \in BOOLEAN :
        LET u == RepoUpdate(users, [NewUser(req) EXCEPT !.ID = id], now, moved)
        IN  /\ users' = u.users
            /\ calls' = << <<"Update", id>> >>
            /\ res' = Result("Update", id, Ptr(req), 0, 0,
                             Ptr(ToResponse(u.user)), <<>>, 0, u.err)
            /\ UNCHANGED nextID
            /\ GatewayOnly

userRepository_Delete(id) ==
    LET d == RepoDelete(users, id, now)
    IN  /\ users' = d.users
        /\ calls' = << <<"Delete", id>> >>
        /\ res' = Result("Delete", id, Nil, 0, 0, Nil, <<>>, 0, d.err)
        /\ UNCHANGED nextID
        /\ GatewayOnly

RepoNext ==
    \/ \E req \in Requests : userRepository_Create(req)
    \/ \E id \in IDs, req \in Requests : userRepository_Update(id, req)
    \/ \E id \in IDs : userRepository_Delete(id)

RepoSpec == Init /\ [][RepoNext]_vars

-----------------------------------------------------------------------------
(* CacheSpec: the calls of Spec on a service that starts with one user in  *)
(* the table and finds Redis holding whatever earlier processes left       *)
(* there: nothing, text that is no JSON, or snapshots that no longer match *)
(* the table.                                                              *)

\* An entry put some time ago that has not expired yet.
OldEntry(json) == [json |-> json, expireAt |-> CacheTTL - 1]

\* What Redis may hold under user:<id> at the start.
LeftOver(id) ==
    { OldEntry(InvalidJSON),
      OldEntry(Marshal([ConcRow(id, "old@example.com", TRUE)
                           EXCEPT !.Name = "Old Name", !.IsActive = FALSE])) }

CacheInit ==
    /\ users = << ConcRow(1, "john@example.com", TRUE) >>
    /\ nextID = 2
    /\ \E keys \in SUBSET {Key(1), Key(2)} :
          cache \in [keys -> LeftOver(1) \cup LeftOver(2)]
    /\ \A k \in DOMAIN cache : cache[k] \in LeftOver(k[2])
    /\ redis = TRUE
    /\ now = 0
    /\ res = Result("none", 0, Nil, 0, 0, Nil, <<>>, 0, NoError)
    /\ calls = <<>>
    /\ http = NoResponse
    /\ failing = {}
    /\ inflight = <<>>

CacheSpec == CacheInit /\ [][Next]_vars

-----------------------------------------------------------------------------
(* PageSpec: GetAllUsers on a table of up to MaxListRows rows, some of     *)
(* them soft-deleted, listed while none of its rows is cached yet.         *)

ListPages == {Int64(-1), Int64(0), Int64(1), Int64(2), Int64(3), Int64(4), MaxInt64}
ListPageSizes == {-1, 0, 1, 3, 10, 100, 101}
DeletedEvery == {0, 2, 13}

\* Row id of a table filled by CreateUser and thinned by DeleteUser.
ListRow(id, k) ==
    [ID |-> id, Name |-> "User", Email |-> ToString(id), Age |-> 20 + id,
     Phone |-> "", Address |-> "", IsActive |-> TRUE, CreatedAt |-> 0,
     UpdatedAt |-> 0,
     DeletedAt |-> IF k > 0 /\ id % k = 0 THEN Ptr(0) ELSE Nil]

PageInit ==
    /\ \E n \in 0..MaxListRows, k \in DeletedEvery :
           /\ users = [id \in 1..n |-> ListRow(id, k)]
           /\ nextID = n + 1
    /\ cache = <<>>
    /\ redis \in BOOLEAN
    /\ now = 0
    /\ res = Result("none", 0, Nil, 0, 0, Nil, <<>>, 0, NoError)
    /\ calls = <<>>
    /\ http = NoResponse
    /\ failing = {}
    /\ inflight = <<>>

PageNext ==
    /\ cache = <<>>
    /\ \E page \in ListPages, pageSize \in ListPageSizes :
           GetAllUsers(page, pageSize) /\ Direct

PageSpec == PageInit /\ [][PageNext]_vars

-----------------------------------------------------------------------------
(* Properties *)

\* A live row has this email, compared byte for byte.
EmailIsLive(email) == \E i \in LivePos(users) : users[i].Email = email

\* A live row other than id has this email.
EmailIsLiveElsewhere(email, id) ==
    \E i \in LivePos(users) : users[i].Email = email /\ users[i].ID # id

\* The live row id, when there is one.
LiveRow(tbl, id) == tbl[CHOOSE i \in LivePos(tbl) : tbl[i].ID = id]
IsLiveID(tbl, id) == \E i \in LivePos(tbl) : tbl[i].ID = id

SameFields(a, b) ==
    /\ a.Name = b.Name /\ a.Email = b.Email /\ a.Age = b.Age
    /\ a.Phone = b.Phone /\ a.Address = b.Address /\ a.IsActive = b.IsActive

Called(method) == {i \in DOMAIN calls : calls[i][1] = method}
CalledNext(method) == {i \in DOMAIN calls' : calls'[i][1] = method}

\* The step is a call of op (res' records the call a step makes).
Step(op) == res'.op = op
Arg == Deref(res'.req)

\* C1: CreateUser with an email that no live user has succeeds, and a
\* GetUserByID of the returned identifier right after it succeeds with the
\* name, email, age, phone, address and active flag of the create response.
C1_CreateThenGet ==
    [][ /\ (Step("CreateUser") /\ ~EmailIsLive(Arg.Email)) => res'.err = NoError
        /\ ( /\ res.op = "CreateUser" /\ res.err = NoError
             /\ Step("GetUserByID") /\ res'.id = Deref(res.resp).ID )
           => /\ res'.err = NoError
              /\ SameFields(Deref(res'.resp), Deref(res.resp)) ]_vars

\* C2: CreateUser with an email a live user has, byte for byte, fails with
\* the already-exists error, does not call the gateway Create, and leaves the
\* table and the cache as they were.
C2_DuplicateCreateRejected ==
    [][ (Step("CreateUser") /\ EmailIsLive(Arg.Email))
        => /\ res'.err = ErrAlreadyExists(Arg.Email)
           /\ res'.resp = Nil
           /\ CalledNext("Create") = {}
           /\ users' = users
           /\ cache' = cache ]_vars

\* A second CreateUser was rejected while the first user is live and cached,
\* and another live user's email differs from the rejected one in case only.
C2_Witness ==
    /\ res.op = "CreateUser"
    /\ res.err = ErrAlreadyExists("john@example.com")
    /\ EmailIsLive("john@example.com")
    /\ EmailIsLive("John@example.com")
    /\ redis
    /\ \A i \in LivePos(users) : Key(users[i].ID) \in DOMAIN cache

\* C3: UpdateUser(id, req) whose email differs from the stored one and belongs
\* to another live user fails with the already-exists error, does not call the
\* gateway Update, and leaves the table and the cache as they were.
C3_UpdateToTakenEmailRejected ==
    [][ ( /\ Step("UpdateUser")
          /\ IsLiveID(users, res'.id)
          /\ LiveRow(users, res'.id).Email # Arg.Email
          /\ EmailIsLiveElsewhere(Arg.Email, res'.id) )
        => /\ res'.err = ErrAlreadyExists(Arg.Email)
           /\ res'.resp = Nil
           /\ CalledNext("Update") = {}
           /\ users' = users
           /\ cache' = cache ]_vars

\* An UpdateUser was rejected because the other of two live, cached users has
\* the requested email.
C3_Witness ==
    /\ res.op = "UpdateUser"
    /\ res.err = ErrAlreadyExists(Deref(res.req).Email)
    /\ IsLiveID(users, res.id)
    /\ EmailIsLiveElsewhere(Deref(res.req).Email, res.id)
    /\ redis
    /\ \A i \in LivePos(users) : Key(users[i].ID) \in DOMAIN cache

\* C4: UpdateUser(id, req) whose email is the stored one makes no GetByEmail
\* call and goes on to the gateway Update.
C4_SameEmailSkipsLookup ==
    [][ ( /\ Step("UpdateUser")
          /\ IsLiveID(users, res'.id)
          /\ LiveRow(users, res'.id).Email = Arg.Email )
        => /\ CalledNext("GetByEmail") = {}
           /\ calls' = << <<"GetByID", res'.id>>, <<"Update", res'.id>> >> ]_vars

\* An UpdateUser kept the email, changed the name and succeeded.
C4_Witness ==
    /\ res.op = "UpdateUser"
    /\ res.err = NoError
    /\ Called("GetByEmail") = {}
    /\ Called("Update") # {}
    /\ Deref(res.resp).Email = "john@example.com"
    /\ Deref(res.resp).Name = "John Updated"

\* C5: after a successful DeleteUser(id), GetUserByID(id) returns the
\* not-found error, no page of GetAllUsers holds id, and the number of live
\* rows, which GetAllUsers reports as total, is one less than before.
C5_DeleteThenGone ==
    [][ /\ (Step("DeleteUser") /\ res'.err = NoError)
           => RepoCount(users').count = RepoCount(users).count - 1
        /\ ( /\ res.op = "DeleteUser" /\ res.err = NoError
             /\ Step("GetUserByID") /\ res'.id = res.id )
           => (res'.err = ErrNotFound /\ res'.resp = Nil)
        /\ (res.op = "DeleteUser" /\ res.err = NoError /\ Step("GetAllUsers"))
           => /\ \A i \in DOMAIN res'.list : res'.list[i].ID # res.id
              /\ res'.total = RepoCount(users).count ]_vars

\* A cached user was deleted while another user stays live.
C5_Witness ==
    /\ res.op = "DeleteUser"
    /\ res.err = NoError
    /\ redis
    /\ \E i \in DOMAIN users : users[i].ID = res.id /\ users[i].DeletedAt # Nil
    /\ RepoCount(users).count = 1
    /\ Key(res.id) \notin DOMAIN cache

\* The entry of id is in the cache and has not run out at time t.
Unexpired(c, id, t) == Key(id) \in DOMAIN c /\ c[Key(id)].expireAt > t

\* C6: a GetUserByID(id) that misses the cache and finds the row puts an entry
\* that lasts CacheTTL minutes; the entry stays until it runs out or id is
\* updated or deleted; and while it is there GetUserByID(id) succeeds without
\* any gateway call.
C6_CachedReadSkipsGateway ==
    [][ /\ (Step("GetUserByID") /\ redis /\ res'.err = NoError /\ calls' # <<>>)
           => /\ Key(res'.id) \in DOMAIN cache'
              /\ cache'[Key(res'.id)].expireAt = now + CacheTTL
        /\ \A id \in TimedIDs :
              ( /\ Unexpired(cache, id, now')
                /\ ~(res'.id = id /\ (Step("UpdateUser") \/ Step("DeleteUser"))) )
              => Unexpired(cache', id, now')
        /\ (Step("GetUserByID") /\ Unexpired(cache, res'.id, now))
           => (calls' = <<>> /\ res'.err = NoError) ]_vars

\* After the entry CreateUser wrote has run out, a GetUserByID missed the
\* cache, read the row through the gateway and put a fresh entry.
C6_Witness ==
    /\ res.op = "GetUserByID"
    /\ res.err = NoError
    /\ redis
    /\ now >= CacheTTL
    /\ calls = << <<"GetByID", res.id>> >>
    /\ Unexpired(cache, res.id, now)
    /\ cache[Key(res.id)].expireAt = now + CacheTTL

\* C7: the GetUserByID(id) right after a successful UpdateUser(id) returns
\* the updated values, and right after a successful DeleteUser(id) the
\* not-found error, also when id was cached before the write.
C7_ReadAfterWrite ==
    [][ /\ ( /\ res.op = "UpdateUser" /\ res.err = NoError
             /\ Step("GetUserByID") /\ res'.id = res.id )
           => /\ res'.err = NoError
              /\ SameFields(Deref(res'.resp), Deref(res.resp))
              /\ SameFields(Deref(res'.resp), LiveRow(users, res.id))
              /\ Deref(res'.resp).Name = Deref(res.req).Name
              /\ Deref(res'.resp).Email = Deref(res.req).Email
              /\ Deref(res'.resp).Age = Deref(res.req).Age
              /\ Deref(res'.resp).Phone = Deref(res.req).Phone
              /\ Deref(res'.resp).Address = Deref(res.req).Address
        /\ ( /\ res.op = "DeleteUser" /\ res.err = NoError
             /\ Step("GetUserByID") /\ res'.id = res.id )
           => res'.err = ErrNotFound ]_vars

\* A read served from the cache returns an inactive user: CreateUser never
\* stores one, so the entry is the one an UpdateUser wrote over the entry of
\* the create.
C7_Witness ==
    /\ res.op = "GetUserByID"
    /\ res.err = NoError
    /\ calls = <<>>
    /\ Deref(res.resp).IsActive = FALSE
    /\ SameFields(Deref(res.resp), LiveRow(users, res.id))

\* C8: a successful UpdateUser whose request has no active flag leaves the
\* stored flag as it was; one with an explicit flag stores that flag.
C8_ActiveFlagOnUpdate ==
    [][ (Step("UpdateUser") /\ res'.err = NoError)
        => /\ IsLiveID(users, res'.id)
           /\ IsLiveID(users', res'.id)
           /\ LiveRow(users', res'.id).IsActive =
                 IF Arg.IsActive = Nil THEN LiveRow(users, res'.id).IsActive
                 ELSE Deref(Arg.IsActive) ]_vars

\* An update without the flag went through on a user stored as inactive.
C8_Witness ==
    /\ res.op = "UpdateUser"
    /\ res.err = NoError
    /\ Deref(res.req).IsActive = Nil
    /\ LiveRow(users, res.id).IsActive = FALSE

\* What C9 and C10 expect of GetAllUsers, from its arguments: the limit, and
\* the offset (max(page, 1) - 1) * limit as a number, in limbs with the carry
\* out of the top limb kept as one more limb.
ExpLimit == IF 1 <= res.pageSize /\ res.pageSize <= 100 THEN res.pageSize ELSE 10
ExpPage == IF IsNegative(res.page) \/ IsZero(res.page) THEN Int64(1) ELSE res.page

ExpOffset == ExactMulFrom(Dec(ExpPage), ExpLimit, 1, 0)

\* The int w has the value of the number x.
HasValue(w, x) ==
    /\ ~IsNegative(w)
    /\ x[IntLimbs + 1] = 0
    /\ \A i \in 1..IntLimbs : w[i] = x[i]

\* x <= n and x < n, for a number x in limbs and a small number n
Small(x) == (\A i \in 3..IntLimbs + 1 : x[i] = 0) /\ x[2] < LimbBase \div 2
SmallValue(x) == x[1] + x[2] * LimbBase

\* C9: GetAllUsers calls the gateway GetAll exactly once, with limit =
\* pageSize when 1 <= pageSize <= 100 and 10 otherwise, and with
\* offset = (max(page, 1) - 1) * limit.
C9_GetAllArguments ==
    res.op = "GetAllUsers"
    => /\ Cardinality(Called("GetAll")) = 1
       /\ \A i \in Called("GetAll") :
             /\ calls[i][3] = ExpLimit
             /\ HasValue(calls[i][2], ExpOffset)

NumLive == Cardinality({i \in DOMAIN users : users[i].DeletedAt = Nil})

\* The k-th row that is not soft-deleted, in scan order.
NthLive(k) ==
    users[CHOOSE p \in DOMAIN users :
             /\ users[p].DeletedAt = Nil
             /\ Cardinality({q \in 1..p : users[q].DeletedAt = Nil}) = k]

\* min(limit, max(0, N - offset))
ExpCount ==
    IF Small(ExpOffset) /\ SmallValue(ExpOffset) < NumLive
    THEN Min(ExpLimit, NumLive - SmallValue(ExpOffset))
    ELSE 0

\* C10: with N live users GetAllUsers returns min(limit, max(0, N - offset))
\* users and total = N; item i of the page is live user number offset + i,
\* so the pages of one page size hold each live user once and no soft-deleted
\* user.
C10_PageContents ==
    res.op = "GetAllUsers"
    => /\ res.err = NoError
       /\ res.total = NumLive
       /\ Len(res.list) = ExpCount
       /\ \A i \in DOMAIN res.list :
             res.list[i] = ToResponse(NthLive(SmallValue(ExpOffset) + i))

\* What a call returns and the table it leaves.
Outcome(err, resp, list, total, tbl, seq) ==
    [err |-> err, resp |-> resp, list |-> list, total |-> total, users |-> tbl,
     nextID |-> seq]

\* What the step returned and left.
StepOutcome == Outcome(res'.err, res'.resp, res'.list, res'.total, users', nextID')

\* The outcomes of each operation of a service built with a nil Redis
\* client, on the table as it is: the operation with every cache helper
\* returning at once.
PlainCreateUser(req) ==
    LET c == RepoCreate(users, nextID, NewUser(req), now)
    IN  IF RepoGetByEmail(users, req.Email).user # Nil
        THEN {Outcome(ErrAlreadyExists(req.Email), Nil, <<>>, 0, users, nextID)}
        ELSE IF c.err # NoError
        THEN {Outcome(Wrap("failed to create user: ", c.err), Nil, <<>>, 0,
                      c.users, c.nextID)}
        ELSE {Outcome(NoError, Ptr(ToResponse(c.user)), <<>>, 0, c.users, c.nextID)}

PlainGetUserByID(id) ==
    LET g == RepoGetByID(users, id)
    IN  IF g.err # NoError THEN {Outcome(g.err, Nil, <<>>, 0, users, nextID)}
        ELSE {Outcome(NoError, Ptr(ToResponse(Deref(g.user))), <<>>, 0, users,
                      nextID)}

PlainGetAllUsers(page, pageSize) ==
    LET all == RepoGetAll(users, PageOffset(NormPage(page), NormPageSize(pageSize)),
                          NormPageSize(pageSize))
    IN  {Outcome(NoError, Nil, Responses(all.users), RepoCount(users).count, users,
                 nextID)}

PlainUpdateUser(id, req) ==
    LET g == RepoGetByID(users, id)
        existing == RepoGetByEmail(users, req.Email)
    IN  IF g.err # NoError THEN {Outcome(g.err, Nil, <<>>, 0, users, nextID)}
        ELSE IF /\ Deref(g.user).Email # req.Email
                /\ existing.user # Nil
                /\ Deref(existing.user).ID # id
        THEN {Outcome(ErrAlreadyExists(req.Email), Nil, <<>>, 0, users, nextID)}
        ELSE { LET u == RepoUpdate(users, UpdateFromRequest(Deref(g.user), req),
                                   now, moved)
               IN  IF u.err # NoError
                   THEN Outcome(Wrap("failed to update user: ", u.err), Nil, <<>>,
                                0, u.users, nextID)
                   ELSE Outcome(NoError, Ptr(ToResponse(u.user)), <<>>, 0,
                                u.users, nextID)
               : moved \in BOOLEAN }

PlainDeleteUser(id) ==
    LET d == RepoDelete(users, id, now)
    IN  IF d.err # NoError
        THEN {Outcome(Wrap("failed to delete user: ", d.err), Nil, <<>>, 0, d.users,
                      nextID)}
        ELSE {Outcome(NoError, Nil, <<>>, 0, d.users, nextID)}

\* The outcomes the call of this step has on the service without a cache.
PlainOutcomes ==
    CASE Step("CreateUser") -> PlainCreateUser(Arg)
      [] Step("GetUserByID") -> PlainGetUserByID(res'.id)
      [] Step("GetAllUsers") -> PlainGetAllUsers(res'.page, res'.pageSize)
      [] Step("UpdateUser") -> PlainUpdateUser(res'.id, Arg)
      [] Step("DeleteUser") -> PlainDeleteUser(res'.id)

\* C13: a service with a working cache and a service with a nil Redis client
\* give the same results and leave the same table on every sequence of calls.
\* Stated call by call: from any table a sequence of calls has led to, with
\* or without a cache, the call returns the error, user, list and total, and
\* leaves the table and the sequence, that the service without a cache returns
\* and leaves from that table; so the two services stay in step.
C13_CacheTransparent ==
    [][ (StepOutcome \in PlainOutcomes) ]_vars

\* A read of user 2 was served from the cache, which holds the entry an
\* update wrote, while user 1 is soft-deleted and uncached.
C13_Witness ==
    /\ redis
    /\ res.op = "GetUserByID" /\ res.id = 2 /\ res.err = NoError
    /\ calls = <<>>
    /\ Deref(res.resp).Name = "John Updated"
    /\ Deref(res.resp).IsActive = FALSE
    /\ IsLiveID(users, 2)
    /\ ~IsLiveID(users, 1)
    /\ DOMAIN cache = {Key(2)}

\* A soft-deleted row has this e-mail and no live row has it.
EmailOfDeletedOnly(email) ==
    /\ \E i \in DOMAIN users : ~Live(users[i]) /\ users[i].Email = email
    /\ ~EmailIsLive(email)

\* C15: a soft-deleted row never stands in the way of its e-mail.  CreateUser
\* with the e-mail of a soft-deleted user succeeds and yields a live user with
\* an identifier no row had; UpdateUser of a live user to that e-mail
\* succeeds and stores it.
C15_DeletedEmailIsFree ==
    [][ /\ (Step("CreateUser") /\ EmailOfDeletedOnly(Arg.Email))
           => /\ res'.err = NoError
              /\ \A i \in DOMAIN users : users[i].ID # Deref(res'.resp).ID
              /\ IsLiveID(users', Deref(res'.resp).ID)
              /\ LiveRow(users', Deref(res'.resp).ID).Email = Arg.Email
        /\ ( /\ Step("UpdateUser") /\ IsLiveID(users, res'.id)
             /\ EmailOfDeletedOnly(Arg.Email) )
           => /\ res'.err = NoError
              /\ LiveRow(users', res'.id).Email = Arg.Email ]_vars

-----------------------------------------------------------------------------
(* Properties of the handlers *)

LenIn(str, lo, hi) == lo <= Len(str) /\ Len(str) <= hi

\* Something, an @, something.
WellFormedEmail(e) == \E i \in 2..Len(e) - 1 : CharAt(e, i) = "@"

\* The request breaks a rule of section 4.1 of the specification.
ViolatesConstraint(req) ==
    \/ ~LenIn(req.Name, 2, 100)
    \/ req.Age < 0 \/ req.Age > 150
    \/ (req.Phone # "" /\ ~LenIn(req.Phone, 10, 20))
    \/ Len(req.Address) > 255
    \/ ~WellFormedEmail(req.Email)

\* C11: a create or update request that breaks a field rule (name of 2..100
\* characters, age 0..150, phone absent or of 10..20 characters, address of
\* at most 255, a well-formed e-mail) is answered 400 with no gateway call
\* made and the table and the cache as they were.
C11_InvalidRequestRejected ==
    [][ (res'.op \in {"CreateUser", "UpdateUser"} /\ ViolatesConstraint(Arg))
        => /\ http'.status = 400
           /\ calls' = <<>>
           /\ users' = users
           /\ cache' = cache ]_vars

\* The request a step serves.
Post(body) == http'.handler = "CreateUser" /\ http'.request.body = body
Get(idParam) == http'.handler = "GetUser" /\ http'.request.id = idParam
Put(idParam, body) ==
    /\ http'.handler = "UpdateUser"
    /\ http'.request.id = idParam
    /\ http'.request.body = body
Delete(idParam) == http'.handler = "DeleteUser" /\ http'.request.id = idParam

\* The last request went to this handler and got this status.
Answered(handler, status) == http.handler = handler /\ http.status = status

\* The table holds user 1 with John's e-mail and nothing else.
OnlyUser(name, age, live) ==
    /\ Len(users) = 1
    /\ users[1].ID = 1
    /\ users[1].Name = name
    /\ users[1].Email = "john@example.com"
    /\ users[1].Age = age
    /\ Live(users[1]) = live

\* C12: on an empty table POST {John Doe, john@example.com, 30} is answered
\* 201 with identifier 1 and active = true; then GET 1 is answered 200 with
\* the same data (from the cache when there is one, from the gateway
\* otherwise); then PUT 1 {John Updated, john@example.com, 31} is answered
\* 200 with age 31; then DELETE 1 is answered 200; then GET 1 is answered 404.
C12_CrudScenario ==
    [][ /\ (users = <<>> /\ Post(JohnDoe))
           => /\ http'.status = 201
              /\ Deref(http'.data).ID = 1
              /\ Deref(http'.data).IsActive = TRUE
              /\ Deref(http'.data).Name = "John Doe"
              /\ Deref(http'.data).Email = "john@example.com"
              /\ Deref(http'.data).Age = 30
              /\ calls' = << <<"GetByEmail", "john@example.com">>,
                             <<"Create", "john@example.com">> >>
        /\ ( /\ Answered("CreateUser", 201) /\ http.request.body = JohnDoe
             /\ OnlyUser("John Doe", 30, TRUE)
             /\ Get("1") )
           => /\ http'.status = 200
              /\ http'.data = http.data
              /\ calls' = IF redis THEN <<>> ELSE << <<"GetByID", 1>> >>
        /\ ( /\ Answered("GetUser", 200)
             /\ OnlyUser("John Doe", 30, TRUE)
             /\ Put("1", JohnUpdated) )
           => /\ http'.status = 200
              /\ Deref(http'.data).ID = 1
              /\ Deref(http'.data).Name = "John Updated"
              /\ Deref(http'.data).Age = 31
              /\ OnlyUser("John Updated", 31, TRUE)'
        /\ ( /\ Answered("UpdateUser", 200)
             /\ OnlyUser("John Updated", 31, TRUE)
             /\ Delete("1") )
           => /\ http'.status = 200
              /\ OnlyUser("John Updated", 31, FALSE)'
        /\ ( /\ Answered("DeleteUser", 200)
             /\ OnlyUser("John Updated", 31, FALSE)
             /\ Get("1") )
           => /\ http'.status = 404
              /\ http'.data = Nil ]_vars

\* The last GET of the sequence was answered 404, with a cache in use: the
\* table holds the soft-deleted row 1 of John Updated and no entry is left.
C12_Witness ==
    /\ Answered("GetUser", 404)
    /\ http.request.id = "1"
    /\ OnlyUser("John Updated", 31, FALSE)
    /\ nextID = 2
    /\ redis
    /\ cache = <<>>

\* Redis has an entry for id that has not run out.
EntryPresent(id) == redis /\ Key(id) \in DOMAIN cache /\ ~Expired(cache, Key(id), now)

\* The step is a GetUserByID that Redis answers with an entry.
ServedFromCache ==
    Step("GetUserByID") /\ ~Fails("Get") /\ EntryPresent(res'.id)

\* C14: a Redis command that fails never makes an operation fail.  In a
\* request during which Set, Get or Del fails, the operation succeeds exactly
\* when it does with the same table and no failing command: when Redis
\* answers the read with an entry, or the operation without a cache succeeds;
\* and unless the read was served from the cache it returns and leaves what
\* the operation without a cache does.
C14_CacheFailureAbsorbed ==
    [][ (failing # {} /\ failing \subseteq RedisCommands /\ res'.op # "none")
        => /\ (res'.err = NoError)
                <=> (ServedFromCache \/ \E o \in PlainOutcomes : o.err = NoError)
           /\ ServedFromCache => users' = users
           /\ ~ServedFromCache => StepOutcome \in PlainOutcomes ]_vars

\* A POST was answered 201 by a service with a Redis client, yet no entry
\* was written: the Set of that request failed.
C14_Witness ==
    /\ Answered("CreateUser", 201)
    /\ redis
    /\ Key(Deref(http.data).ID) \notin DOMAIN cache
    /\ IsLiveID(users, Deref(http.data).ID)

-----------------------------------------------------------------------------
(* Properties of the handlers' error mapping *)

\* err is, or wraps, the error of a statement the database could not run.
IsStorageFailure(err) == err # NoError /\ err[Len(err)] = ErrStorage[1]

\* C17: whenever a service operation fails because the database could not
\* run one of its statements (an error that is neither "not found" nor a
\* duplicate), the handler answers 500.
C17_StorageFailureIs500 ==
    [][ (res'.op # "none" /\ IsStorageFailure(res'.err))
        => http'.status = 500 ]_vars

\* C19: the update handler answers 404 exactly when the message of the
\* service's error is "user not found", and 400 for every other service
\* error, a failure of the database ("database connection failed", alone or
\* under the prefix of UpdateUser) among them.
C19_UpdateErrorStatus ==
    [][ (http'.handler = "UpdateUser" /\ res'.op # "none")
        => /\ http'.status = 404 <=> Message(res'.err) = "user not found"
           /\ (res'.err # NoError /\ Message(res'.err) # "user not found")
              => http'.status = 400
           /\ IsStorageFailure(res'.err) => http'.status = 400
           /\ res'.err = NoError => http'.status = 200 ]_vars

\* A PUT was answered 400 because the database could not run the UPDATE.
C19_Witness ==
    /\ Answered("UpdateUser", 400)
    /\ Message(res.err) = "failed to update user: database connection failed"
    /\ Message(http.error) = Message(res.err)

\* The text is a non-empty run of decimal digits.
IsUnsignedInteger(s) ==
    s # "" /\ \A i \in 1..Len(s) : CharAt(s, i) \in Digits

\* The body is no JSON, or a member of it has the wrong type.
Undecodable(body) == body \in {NotJSON, WrongType}

\* C20: when the identifier in the path is not an unsigned integer, or the
\* body of a POST or PUT cannot be decoded, the handler answers 400 and
\* calls no service operation: no gateway call is made, and the table, the
\* sequence and the cache stay as they were.
C20_UndecodableRequestStopsAtHandler ==
    [][ (\/ /\ http'.handler \in {"GetUser", "UpdateUser", "DeleteUser"}
            /\ ~IsUnsignedInteger(http'.request.id)
         \/ /\ http'.handler \in {"CreateUser", "UpdateUser"}
            /\ Undecodable(http'.request.body))
        => /\ http'.status = 400
           /\ res'.op = "none"
           /\ calls' = <<>>
           /\ users' = users
           /\ nextID' = nextID
           /\ cache' = cache ]_vars

\* A PUT on /users/abc was answered 400 while a user is stored and cached.
C20_Witness ==
    /\ Answered("UpdateUser", 400)
    /\ http.request.id = "abc"
    /\ http.request.body = JohnUpdated
    /\ res.op = "none"
    /\ LivePos(users) # {}
    /\ cache # <<>>

\* C18: through handler, service and gateway, a GET, PUT or DELETE on an
\* identifier that no live row has is answered 404 (the DELETE with the
\* gateway's "user not found" under the service's prefix), and a POST, or a
\* PUT on a live row, whose e-mail a live row (another one, for PUT) holds
\* is answered 400 with the table as it was.
C18_NotFoundAndConflictStatus ==
    [][ /\ (http'.handler \in {"GetUser", "UpdateUser", "DeleteUser"}
            /\ res'.op # "none" /\ ~IsLiveID(users, res'.id))
           => /\ http'.status = 404
              /\ Message(res'.err) =
                    IF http'.handler = "DeleteUser"
                    THEN "failed to delete user: user not found"
                    ELSE "user not found"
        /\ (http'.handler = "CreateUser" /\ res'.op # "none"
            /\ EmailIsLive(Arg.Email))
           => http'.status = 400 /\ users' = users
        /\ (http'.handler = "UpdateUser" /\ res'.op # "none"
            /\ IsLiveID(users, res'.id)
            /\ EmailIsLiveElsewhere(Arg.Email, res'.id))
           => http'.status = 400 /\ users' = users ]_vars

\* A DELETE of a user deleted before was answered 404 while another user
\* is live.
C18_Witness ==
    /\ Answered("DeleteUser", 404)
    /\ res.op = "DeleteUser"
    /\ res.err = Wrap("failed to delete user: ", ErrNotFound)
    /\ \E i \in DOMAIN users : users[i].ID = res.id /\ ~Live(users[i])
    /\ LivePos(users) # {}

-----------------------------------------------------------------------------
(* Properties of calls served at the same time *)

\* The rows of tbl, other than the row of id, that hold email.
HoldersBut(tbl, email, id) ==
    {i \in DOMAIN tbl : tbl[i].Email = email /\ tbl[i].ID # id}

NoTwoLiveShareEmail ==
    \A i, j \in LivePos(users) : users[i].Email = users[j].Email => i = j

\* The call of p runs its INSERT or UPDATE in this step.
Writes(p) ==
    /\ inflight # <<>>
    /\ inflight[p].pc \in {"Create", "Update"}
    /\ inflight'[p] # inflight[p]

\* The calls that have returned without error and whose row still holds
\* the e-mail they asked for.
Owners(email) ==
    {p \in DOMAIN inflight :
        /\ inflight[p].pc = "done"
        /\ inflight[p].err = NoError
        /\ Deref(inflight[p].req).Email = email
        /\ \E i \in LivePos(users) :
              users[i].ID = Deref(inflight[p].resp).ID /\ users[i].Email = email}

\* C16: however CreateUser and UpdateUser calls on the same e-mail are
\* interleaved, no two live rows ever share an e-mail and the calls that
\* succeeded in owning an e-mail all own it through one row; a call whose
\* pre-check passed but whose write finds the e-mail held by another row
\* is rejected by the unique index, leaves the table as it was and returns
\* the wrapped constraint error, and a write that succeeds leaves its row
\* the only holder of the e-mail.
C16_OneOwnerPerEmail ==
    /\ [](/\ NoTwoLiveShareEmail
          /\ \A i \in DOMAIN users : \A p, q \in Owners(users[i].Email) :
                Deref(inflight[p].resp).ID = Deref(inflight[q].resp).ID)
    /\ [][ \A p \in DOMAIN inflight :
             Writes(p) =>
               LET email == Deref(inflight[p].req).Email
                   prefix == IF inflight[p].op = "CreateUser"
                             THEN "failed to create user: "
                             ELSE "failed to update user: "
               IN  IF HoldersBut(users, email, inflight[p].id) # {}
                   THEN /\ inflight'[p].pc = "done"
                        /\ inflight'[p].err = Wrap(prefix, ErrDuplicate)
                        /\ users' = users
                   ELSE /\ inflight'[p].pc = "cacheUser"
                        /\ Cardinality({i \in DOMAIN users' :
                                           users'[i].Email = email}) = 1 ]_vars

\* Two calls passed the pre-check for the same e-mail on different rows;
\* one of them returned without error and the other was rejected by the
\* unique index.
C16_Witness ==
    /\ inflight # <<>>
    /\ \E p, q \in DOMAIN inflight :
          /\ inflight[p].op = "CreateUser"
          /\ inflight[q].op = "UpdateUser"
          /\ Deref(inflight[p].req).Email = "john@example.com"
          /\ Deref(inflight[q].req).Email = "john@example.com"
          /\ \/ /\ inflight[p].pc = "done" /\ inflight[p].err = NoError
                /\ inflight[q].pc = "done"
                /\ inflight[q].err = Wrap("failed to update user: ", ErrDuplicate)
             \/ /\ inflight[q].pc = "done" /\ inflight[q].err = NoError
                /\ inflight[p].pc = "done"
                /\ inflight[p].err = Wrap("failed to create user: ", ErrDuplicate)

-----------------------------------------------------------------------------
(* Properties of identifiers, rows and cache entries *)

\* The identifiers of the rows of tbl, soft-deleted rows included.
RowIDs(tbl) == {tbl[i].ID : i \in DOMAIN tbl}

\* The row of tbl with this identifier.
RowOf(tbl, id) == tbl[CHOOSE i \in DOMAIN tbl : tbl[i].ID = id]

\* C21: identifiers are handed out once and stay.  Every row, soft-deleted
\* or not, has an identifier of its own that the sequence has already passed;
\* the sequence never goes back; a successful CreateUser returns the next
\* value of the sequence, which no row has, a soft-deleted row included; and
\* every step keeps the identifier of every row: the rows of before are
\* there after it, with their identifiers and their creation times, and only
\* a successful CreateUser adds a row.
C21_IdentifiersNeverReused ==
    /\ [](/\ \A i, j \in DOMAIN users : users[i].ID = users[j].ID => i = j
          /\ \A i \in DOMAIN users : 1 <= users[i].ID /\ users[i].ID < nextID)
    /\ [][ /\ nextID' >= nextID
           /\ (Step("CreateUser") /\ res'.err = NoError)
              => /\ Deref(res'.resp).ID = nextID
                 /\ Deref(res'.resp).ID \notin RowIDs(users)
                 /\ RowIDs(users') = RowIDs(users) \cup {Deref(res'.resp).ID}
                 /\ Len(users') = Len(users) + 1
           /\ ~(Step("CreateUser") /\ res'.err = NoError)
              => RowIDs(users') = RowIDs(users) /\ Len(users') = Len(users)
           /\ \A id \in RowIDs(users) :
                /\ id \in RowIDs(users')
                /\ RowOf(users', id).CreatedAt = RowOf(users, id).CreatedAt
                /\ (res'.op \in {"UpdateUser", "DeleteUser"} /\ res'.id = id)
                   \/ RowOf(users', id) = RowOf(users, id) ]_vars

\* A second user was created after the first was soft-deleted.
C21_Witness ==
    /\ res.op = "CreateUser"
    /\ res.err = NoError
    /\ Deref(res.resp).ID = 2
    /\ \E i \in DOMAIN users : users[i].ID = 1 /\ ~Live(users[i])

EntryWritten(key) ==
    key \in DOMAIN cache' /\ (key \notin DOMAIN cache \/ cache'[key] # cache[key])

\* C23: every cache entry lies under the key user:<id> of the user it
\* holds and was put there at most 15 minutes ago; every entry a step writes
\* expires 15 minutes after that step; and GetUserByID answers from the
\* cache only while the entry has not expired: from its expiration on, the
\* call makes GetByID read the table (and puts a new entry).
C23_KeyAndExpiry ==
    /\ [](\A k \in DOMAIN cache :
             /\ k = Key(cache[k].json.id)
             /\ cache[k].expireAt <= now + CacheTTL)
    /\ [][ /\ \A k \in DOMAIN cache' :
                EntryWritten(k) => cache'[k].expireAt = now' + CacheTTL
           /\ Step("GetUserByID")
              => IF Unexpired(cache, res'.id, now)
                 THEN calls' = <<>>
                 ELSE /\ calls' = << <<"GetByID", res'.id>> >>
                      /\ (redis /\ res'.err = NoError)
                         => /\ EntryWritten(Key(res'.id))
                            /\ cache'[Key(res'.id)].json = Marshal(LiveRow(users, res'.id))
         ]_vars

\* The user was created and cached at time 0 and not written since; later
\* than 15 minutes after that, GetUserByID read it from the table.
C23_Witness ==
    /\ redis
    /\ res.op = "GetUserByID"
    /\ res.err = NoError
    /\ Called("GetByID") # {}
    /\ Deref(res.resp).CreatedAt = 0
    /\ Deref(res.resp).UpdatedAt = 0
    /\ now >= CacheTTL
    /\ cache[Key(res.id)].expireAt = now + CacheTTL

\* C25: DeleteUser(id) for an identifier that no live row has (never
\* handed out, or soft-deleted already, as in a second DeleteUser(id))
\* returns the gateway's "user not found" under "failed to delete user: ",
\* leaves the table as it was and sends no Del: the cache, an entry a failed
\* Del left behind under user:<id> included, is what it was.
C25_DeleteOfMissingUser ==
    [][ (Step("DeleteUser") /\ ~IsLiveID(users, res'.id) /\ ~Fails("Delete"))
        => /\ res'.err = Wrap("failed to delete user: ", ErrNotFound)
           /\ calls' = << <<"Delete", res'.id>> >>
           /\ users' = users
           /\ cache' = cache ]_vars

\* A second DeleteUser of a user whose cache entry outlived the first one.
C25_Witness ==
    /\ res.op = "DeleteUser"
    /\ res.err = Wrap("failed to delete user: ", ErrNotFound)
    /\ \E i \in DOMAIN users : users[i].ID = res.id /\ ~Live(users[i])
    /\ Key(res.id) \in DOMAIN cache

\* C26: UpdateUser(id, req) for an identifier that no live row has returns
\* the gateway's "user not found" as it is, with no response, after GetByID
\* alone: neither GetByEmail nor Update is called and nothing changes, also
\* when another live user holds the e-mail of the request.
C26_UpdateOfMissingUser ==
    [][ (Step("UpdateUser") /\ ~IsLiveID(users, res'.id))
        => /\ res'.err = ErrNotFound
           /\ res'.resp = Nil
           /\ calls' = << <<"GetByID", res'.id>> >>
           /\ users' = users
           /\ cache' = cache ]_vars

\* An update of a deleted user to the e-mail of a live user came back with
\* "user not found".
C26_Witness ==
    /\ res.op = "UpdateUser"
    /\ res.err = ErrNotFound
    /\ \E i \in DOMAIN users : users[i].ID = res.id /\ ~Live(users[i])
    /\ EmailIsLiveElsewhere(Deref(res.req).Email, res.id)

\* C27: when GetAll fails, GetAllUsers returns "failed to get users: " with
\* the cause, no list and total 0, and Count is not called; when GetAll
\* succeeds and Count fails, it returns "failed to count users: " with the
\* cause, no list and total 0; neither call writes to the cache.
C27_ListFailures ==
    [][ /\ (Step("GetAllUsers") /\ Fails("GetAll"))
           => /\ res'.err = Wrap("failed to get users: ", ErrStorage)
              /\ res'.list = <<>> /\ res'.total = 0
              /\ CalledNext("GetAll") # {} /\ CalledNext("Count") = {}
              /\ cache' = cache /\ users' = users
        /\ (Step("GetAllUsers") /\ Fails("Count"))
           => /\ res'.err = Wrap("failed to count users: ", ErrStorage)
              /\ res'.list = <<>> /\ res'.total = 0
              /\ CalledNext("GetAll") # {} /\ CalledNext("Count") # {}
              /\ cache' = cache /\ users' = users ]_vars

\* Count failed in a listing while Redis is in use and a live user is not
\* in the cache.
C27_Witness ==
    /\ res.op = "GetAllUsers"
    /\ res.err = Wrap("failed to count users: ", ErrStorage)
    /\ redis
    /\ \E i \in LivePos(users) : Key(users[i].ID) \notin DOMAIN cache

\* The keys of the users of a page.
PageKeys(list) == {Key(list[i].ID) : i \in DOMAIN list}

\* C28: a successful GetAllUsers returns the list and the total that the
\* service without a cache returns from the same table, whether Set works
\* or fails.  With Redis in use and Set working, the cache then holds, for
\* every user of the returned page, under user:<id> of that user, the
\* snapshot of that user's row, put at the time of the call, and the entries
\* under all other keys are what they were; when Set fails the cache is what
\* it was.
C28_ListFillsCache ==
    [][ (Step("GetAllUsers") /\ res'.err = NoError)
        => /\ StepOutcome \in PlainGetAllUsers(res'.page, res'.pageSize)
           /\ (redis /\ ~Fails("Set"))
              => /\ \A i \in DOMAIN res'.list :
                      LET u == res'.list[i]
                      IN  /\ Key(u.ID) \in DOMAIN cache'
                          /\ cache'[Key(u.ID)].json = Marshal(LiveRow(users, u.ID))
                          /\ ToResponse(Unmarshal(cache'[Key(u.ID)].json)) = u
                          /\ cache'[Key(u.ID)].expireAt = now + CacheTTL
                 /\ DOMAIN cache' = DOMAIN cache \cup PageKeys(res'.list)
                 /\ \A k \in DOMAIN cache \ PageKeys(res'.list) :
                      cache'[k] = cache[k]
           /\ (~redis \/ Fails("Set")) => cache' = cache ]_vars

\* A listing returned two users and both are in the cache, each under its
\* own key.
C28_Witness ==
    /\ res.op = "GetAllUsers"
    /\ res.err = NoError
    /\ Len(res.list) = 2
    /\ redis
    /\ \A i \in DOMAIN res.list :
          /\ Key(res.list[i].ID) \in DOMAIN cache
          /\ cache[Key(res.list[i].ID)].json.email = res.list[i].Email

\* C29: after a successful CreateUser the new row is active when the
\* request has no active flag, and has the flag of the request when it has
\* one, false included; the response reports what the row holds.
C29_ActiveFlagOnCreate ==
    [][ (Step("CreateUser") /\ res'.err = NoError)
        => LET id == Deref(res'.resp).ID
           IN  /\ IsLiveID(users', id)
               /\ LiveRow(users', id).IsActive =
                     IF Arg.IsActive = Nil THEN TRUE ELSE Deref(Arg.IsActive)
               /\ Deref(res'.resp).IsActive = LiveRow(users', id).IsActive ]_vars

\* What the gateway answers to the Create, or the Update, of this step.
CreateCause == RepoCreate(users, nextID, NewUser(Arg), now).err
UpdateCause ==
    RepoUpdate(users, UpdateFromRequest(LiveRow(users, res'.id), Arg), now,
               FALSE).err

\* C30: when CreateUser gets as far as Create and Create fails, it returns
\* no response and the cause under "failed to create user: "; when
\* UpdateUser gets as far as Update and Update fails, it returns no response
\* and the cause under "failed to update user: "; in both cases nothing is
\* written to the cache, so the entry of that user, if there is one, is what
\* it was before the call.
C30_WriteFailureLeavesCache ==
    [][ /\ ( /\ Step("CreateUser") /\ CalledNext("Create") # {}
             /\ CreateCause # NoError )
           => /\ res'.resp = Nil
              /\ res'.err = Wrap("failed to create user: ", CreateCause)
              /\ cache' = cache
        /\ ( /\ Step("UpdateUser") /\ CalledNext("Update") # {}
             /\ UpdateCause # NoError )
           => /\ res'.resp = Nil
              /\ res'.err = Wrap("failed to update user: ", UpdateCause)
              /\ cache' = cache ]_vars

\* An update of a cached user failed in the database, and the cache still
\* holds the user as the table has it.
C30_Witness ==
    /\ res.op = "UpdateUser"
    /\ res.err = Wrap("failed to update user: ", ErrStorage)
    /\ Key(res.id) \in DOMAIN cache
    /\ IsLiveID(users, res.id)
    /\ cache[Key(res.id)].json = Marshal(LiveRow(users, res.id))
    /\ cache[Key(res.id)].json.name # Deref(res.req).Name

-----------------------------------------------------------------------------
(* Properties of the gateway *)

\* C24: the gateway's Update of an entity whose identifier no live row has
\* (no row at all, or a soft-deleted one) returns "user not found" and
\* leaves the table as it was: no row is added and no deletion marker is
\* cleared.
C24_UpdateOfMissingRowFails ==
    [][ (res'.op = "Update" /\ ~IsLiveID(users, res'.id))
        => /\ res'.err = ErrNotFound
           /\ users' = users ]_vars

-----------------------------------------------------------------------------
(* Properties of a cache that holds stale or undecodable entries *)

\* Redis holds, under the key of id, unexpired text that is no JSON.
CorruptEntry(c, id) ==
    Key(id) \in DOMAIN c /\ ~Expired(c, Key(id), now) /\ ~Decodes(c[Key(id)].json)

\* C31: when Redis holds, under user:<id>, an entry that json.Unmarshal
\* rejects, GetUserByID(id) goes on as after a miss: it calls GetByID and
\* returns the live row, or "user not found" when there is none (the entry
\* then stays); when it returns the row it puts the row's snapshot under
\* the key, so that a GetUserByID(id) right after it is answered from the
\* cache, with the same user and without a gateway call.
C31_CorruptEntryIsMiss ==
    [][ /\ (Step("GetUserByID") /\ redis /\ CorruptEntry(cache, res'.id))
           => /\ calls' = << <<"GetByID", res'.id>> >>
              /\ users' = users
              /\ IF IsLiveID(users, res'.id)
                 THEN /\ res'.err = NoError
                      /\ Deref(res'.resp) = ToResponse(LiveRow(users, res'.id))
                      /\ cache'[Key(res'.id)].json = Marshal(LiveRow(users, res'.id))
                      /\ cache'[Key(res'.id)].expireAt = now + CacheTTL
                      /\ getCachedUser(cache', redis, res'.id, now) # Nil
                 ELSE /\ res'.err = ErrNotFound
                      /\ res'.resp = Nil
                      /\ cache' = cache
        /\ ( /\ res.op = "GetUserByID" /\ res.err = NoError
             /\ Called("GetByID") # {}
             /\ Step("GetUserByID") /\ res'.id = res.id /\ redis )
           => /\ calls' = <<>>
              /\ res'.err = NoError
              /\ res'.resp = res.resp ]_vars

\* GetUserByID found undecodable text under the key of an identifier that
\* no row has and answered "user not found", while the user that is
\* stored is in the cache as the table has it.
C31_Witness ==
    /\ res.op = "GetUserByID"
    /\ res.err = ErrNotFound
    /\ CorruptEntry(cache, res.id)
    /\ Key(1) \in DOMAIN cache
    /\ Decodes(cache[Key(1)].json)
    /\ IsLiveID(users, 1)
    /\ cache[Key(1)].json = Marshal(LiveRow(users, 1))

\* The tables and sequence values the call of this step can leave on the
\* service without a cache, from the table as it is.
PlainStores == {<<o.users, o.nextID>> : o \in PlainOutcomes}

\* C33: what a call leaves in the table depends on the table and the call
\* only, never on what the cache holds: whatever Redis held at the start
\* (nothing, undecodable text, outdated snapshots) and holds now, each
\* CreateUser, UpdateUser, DeleteUser and read leaves a table and a sequence
\* that the service without a cache leaves from the same table.  Two runs
\* from equal tables with the same calls therefore go through equal tables,
\* whatever their caches hold.
C33_StoreIndependentOfCache ==
    [][ (<<users', nextID'>> \in PlainStores) ]_vars

\* A read returned an outdated snapshot from the cache, with a name the
\* table does not have, after a second user was created.
C33_Witness ==
    /\ res.op = "GetUserByID"
    /\ res.err = NoError
    /\ calls = <<>>
    /\ IsLiveID(users, res.id)
    /\ Deref(res.resp).Name = "Old Name"
    /\ LiveRow(users, res.id).Name # "Old Name"
    /\ Len(users) = 2

\* C34: also when a Set or a Del fails while the cache holds an earlier
\* entry of the user, a GetUserByID(id) that follows a successful
\* UpdateUser(id) returns the values the update stored, and one that
\* follows a successful DeleteUser(id) returns "user not found".
C34_NoStaleReadAfterWrite ==
    [][ /\ ( /\ res.op = "UpdateUser" /\ res.err = NoError
             /\ Step("GetUserByID") /\ res'.id = res.id )
           => /\ res'.err = NoError
              /\ SameFields(Deref(res'.resp), LiveRow(users, res.id))
        /\ ( /\ res.op = "DeleteUser" /\ res.err = NoError
             /\ Step("GetUserByID") /\ res'.id = res.id )
           => res'.err = ErrNotFound ]_vars

-----------------------------------------------------------------------------
(* Properties of the calls an operation makes *)

\* How often the sequence holds x.
Times(seq, x) == Cardinality({i \in DOMAIN seq : seq[i] = x})

\* C32: an operation is over after a bounded number of calls and repeats
\* none of them.  It calls each gateway method at most once (three calls at
\* most), and sends Redis each command at most once per key: one Get or Del
\* at most, and one Set at most, or one Set per returned row in
\* GetAllUsers; this also holds when the gateway call or the Redis command
\* fails, so a failed command is not sent again.
C32_NoRetry ==
    [][ res'.op # "none"
        => /\ \A m \in GatewayMethods : Cardinality(CalledNext(m)) <= 1
           /\ Len(calls') <= 3
           /\ \A i \in DOMAIN res'.cacheCalls :
                Times(res'.cacheCalls, res'.cacheCalls[i]) = 1
           /\ Len(res'.cacheCalls) <=
                 IF res'.op = "GetAllUsers" THEN Len(res'.list) ELSE 2
           /\ Times(res'.cacheCalls, <<"Get", Key(res'.id)>>)
                 + Times(res'.cacheCalls, <<"Del", Key(res'.id)>>) <= 1 ]_vars

\* A listing of two users sent two Sets while Set was failing, and left the
\* cache empty.
C32_Witness ==
    /\ res.op = "GetAllUsers"
    /\ res.err = NoError
    /\ Len(res.list) = 2
    /\ Len(res.cacheCalls) = 2
    /\ cache = <<>>
    /\ redis

-----------------------------------------------------------------------------
(* Properties of calls served at the same time *)

\* Every call that has started has returned.
AllReturned ==
    /\ inflight # <<>>
    /\ \A p \in DOMAIN inflight : inflight[p].pc \in {"idle", "done"}

\* C35: however GetUserByID, GetAllUsers, UpdateUser and DeleteUser calls
\* on the same identifier are interleaved, once all of them have returned
\* the cache holds under the key of a user either nothing or the live row
\* of that user as it is stored now.
C35_CacheAgreesOnceQuiet ==
    AllReturned =>
        \A id \in RowIDs(users) :
            Key(id) \in DOMAIN cache =>
                /\ IsLiveID(users, id)
                /\ cache[Key(id)].json = Marshal(LiveRow(users, id))

\* The calls that have started are UpdateUser calls on id that returned
\* without error.
OnlyUpdatesOf(id) ==
    /\ AllReturned
    /\ \A p \in DOMAIN inflight :
          inflight[p].pc = "done" =>
             /\ inflight[p].op = "UpdateUser"
             /\ inflight[p].id = id
             /\ inflight[p].err = NoError

\* The values of the active flag that the calls asked for.
FlagsAsked ==
    {Deref(Deref(inflight[p].req).IsActive) :
        p \in {q \in DOMAIN inflight :
                  /\ inflight[q].pc = "done"
                  /\ Deref(inflight[q].req).IsActive # Nil}}

\* C36: however UpdateUser calls on the same identifier are interleaved,
\* when all of them succeeded and the ones that carry an active flag asked
\* for one value, the row holds that value: a call that omits the flag
\* does not change it.
C36_OmittedFlagKeepsStored ==
    \A id \in RowIDs(users), v \in BOOLEAN :
        (OnlyUpdatesOf(id) /\ FlagsAsked = {v})
            => IsLiveID(users, id) /\ LiveRow(users, id).IsActive = v

\* DeleteUser(id) has returned without error.
Deleted(id) ==
    /\ inflight # <<>>
    /\ \E p \in DOMAIN inflight :
          /\ inflight[p].op = "DeleteUser" /\ inflight[p].id = id
          /\ inflight[p].pc = "done" /\ inflight[p].err = NoError

\* C37: however UpdateUser(id) and DeleteUser(id) are interleaved, from the
\* return of a successful DeleteUser on the row of id is not live, and a
\* GetByID that GetUserByID(id) runs from then on finds no user.
C37_DeletedStaysDeleted ==
    /\ [](\A id \in RowIDs(users) : Deleted(id) => ~IsLiveID(users, id))
    /\ [][ \A p \in DOMAIN inflight :
             ( /\ inflight[p].pc = "GetByID"
               /\ Deleted(inflight[p].id)
               /\ inflight'[p] # inflight[p] )
             => /\ inflight'[p].pc = "done"
                /\ inflight'[p].err = ErrNotFound ]_vars

-----------------------------------------------------------------------------
(* Properties of the e-mail pre-check under gateway failures *)

\* GetByEmail(email) returns a row in the current state.
ReturnsRow(email) == ~Fails("GetByEmail") /\ EmailIsLive(email)

\* C38: CreateUser and UpdateUser return "already exists" only when
\* GetByEmail returned a row; when GetByEmail was called and returned an
\* error, record not found or a storage failure alike, the call goes on to
\* Create or Update.
C38_LookupErrorMeansFree ==
    [][ /\ Step("CreateUser") =>
             /\ res'.err = ErrAlreadyExists(Arg.Email) => ReturnsRow(Arg.Email)
             /\ ~ReturnsRow(Arg.Email) => CalledNext("Create") # {}
        /\ Step("UpdateUser") =>
             /\ res'.err = ErrAlreadyExists(Arg.Email) => ReturnsRow(Arg.Email)
             /\ (CalledNext("GetByEmail") # {} /\ ~ReturnsRow(Arg.Email))
                   => CalledNext("Update") # {} ]_vars

\* GetByEmail failed while another live user held the e-mail: the call went
\* on to the write, and the unique index rejected it.
C38_Witness ==
    /\ res.op \in {"CreateUser", "UpdateUser"}
    /\ Called("GetByEmail") # {}
    /\ Called("Create") \cup Called("Update") # {}
    /\ \E i \in LivePos(users) :
          users[i].Email = Deref(res.req).Email /\ users[i].ID # res.id
    /\ res.err \in {Wrap("failed to create user: ", ErrDuplicate),
                    Wrap("failed to update user: ", ErrDuplicate)}

-----------------------------------------------------------------------------
(* Properties of the pagination metadata *)

\* C39: whatever page and page_size hold, GET /users answers 200 when the
\* service returned a page, with current_page and page_size the values the
\* service used after normalising them and total_pages the number of pages
\* of that size that hold total_items users.
C39_PaginationMetadata ==
    [][ (http'.handler = "GetUsers" /\ res'.op = "GetAllUsers"
                                    /\ res'.err = NoError)
          => LET ps == NormPageSize(res'.pageSize)
             IN  /\ http'.status = 200
                 /\ http'.pagination # Nil
                 /\ Deref(http'.pagination).page_size = ps
                 /\ Deref(http'.pagination).current_page = NormPage(res'.page)
                 /\ Deref(http'.pagination).total_items = res'.total
                 /\ Deref(http'.pagination).total_pages
                       = (res'.total + ps - 1) \div ps ]_vars

=============================================================================
